---- MODULE Spec2Model ----
(***************************************************************************)
(* Blokdoc: the document upload / download / update pipeline.              *)
(*                                                                         *)
(* Sources modelled:                                                       *)
(*   src/README.md 466-768          services/document/index.ts             *)
(*                                  (validateFile, uploadDocument,         *)
(*                                  downloadDocument,                      *)
(*                                  updateDocumentContent)                 *)
(*   src/src/services/document/upload.ts   processFileUpload & helpers     *)
(*   src/src/pages/api/documents/index.ts  handlePost                      *)
(*   src/unnamed/part_005           storage/ipfs.ts, solana/document.ts    *)
(*   src/src/blockchain/solana/{program,index}.ts   getProgram,            *)
(*                                  verifyDocumentOwnership                *)
(*   src/src/services/storage/arweave.ts                                   *)
(*   src/src/utils/{helpers,constants}.ts                                  *)
(*   src/src/services/document/cache.ts    DocumentCache and the cached    *)
(*                                  getters                                *)
(*   src/src/pages/api/documents/[id].ts   handlePut                       *)
(*                                                                         *)
(* Every JS string value is a non-empty tuple whose first element is a     *)
(* TLA+ string (so that values built from parts, such as `doc${now}`,      *)
(* stay comparable); byte buffers are tuples of integers.                  *)
(***************************************************************************)
EXTENDS Integers, Sequences, FiniteSets, TLC

(***************************************************************************)
(* Bounds of the model.                                                    *)
(***************************************************************************)
MaxTxs == 1
MaxLedger == 1
MaxAccounts == 2
MaxVersion == 2
MaxTime == 1
MaxAge == 2
RandRange == 2
MaxInFlight == 2

(***************************************************************************)
(* JS values.                                                              *)
(***************************************************************************)
Undefined == <<"undefined">>
EmptyString == <<"">>

\* JS truthiness of an optional string: undefined and '' are falsy.
Truthy(s) == s # Undefined /\ s # EmptyString

\* a || b on optional strings
OrElse(a, b) == IF Truthy(a) THEN a ELSE b

(***************************************************************************)
(* Program constants.                                                      *)
(***************************************************************************)
MAX_FILE_SIZE == 50 * 1024 * 1024

SUPPORTED_FILE_TYPES ==
  { <<"application/pdf">>, <<"application/msword">>,
    <<"application/vnd.openxmlformats-officedocument.wordprocessingml.document">>,
    <<"application/vnd.ms-excel">>,
    <<"application/vnd.openxmlformats-officedocument.spreadsheetml.sheet">>,
    <<"application/vnd.ms-powerpoint">>,
    <<"application/vnd.openxmlformats-officedocument.presentationml.presentation">>,
    <<"text/plain">>, <<"text/markdown">>, <<"application/json">>,
    <<"image/jpeg">>, <<"image/png">>, <<"image/svg+xml">> }

\* upload.ts has its own, smaller limit and its own extension table.
UPLOAD_MAX_FILE_SIZE == 10 * 1024 * 1024

ALLOWED_FILE_TYPES ==
  [ pdf  |-> <<"application/pdf">>,
    doc  |-> <<"application/msword">>,
    docx |-> <<"application/vnd.openxmlformats-officedocument.wordprocessingml.document">>,
    xls  |-> <<"application/vnd.ms-excel">>,
    xlsx |-> <<"application/vnd.openxmlformats-officedocument.spreadsheetml.sheet">>,
    ppt  |-> <<"application/vnd.ms-powerpoint">>,
    pptx |-> <<"application/vnd.openxmlformats-officedocument.presentationml.presentation">>,
    txt  |-> <<"text/plain">>,
    jpg  |-> <<"image/jpeg">>,
    jpeg |-> <<"image/jpeg">>,
    png  |-> <<"image/png">>,
    gif  |-> <<"image/gif">> ]

MOCK_OWNER == <<"BWDKZpACPidQNXXK6K9HGLVWsrjhSPdBGDBHVt3JvjYJ">>

(***************************************************************************)
(* Input domains.                                                          *)
(***************************************************************************)
\* Byte contents ("h", "hi").
Contents == { <<104>>, <<104, 105>> }

\* fileName.split('.') and toLowerCase() on the file names of the model.
SplitDot(fileName) ==
  CASE fileName = <<"report.pdf">> -> <<"report", "pdf">>
    [] fileName = <<"NOTES.TXT">>  -> <<"NOTES", "TXT">>
    [] fileName = <<"blob.xyz">>   -> <<"blob", "xyz">>

ToLowerCase(s) ==
  CASE s = "TXT"   -> "txt"
    [] s = "NOTES" -> "notes"
    [] OTHER       -> s

\* File objects: name, declared MIME type, size, bytes.
PdfFile ==
  [name |-> <<"report.pdf">>, type |-> <<"application/pdf">>, size |-> 1024, content |-> <<104>>]
TxtFile ==
  [name |-> <<"NOTES.TXT">>, type |-> <<"text/plain">>, size |-> 2048, content |-> <<104, 105>>]
LargeFile ==
  [name |-> <<"report.pdf">>, type |-> <<"application/pdf">>, size |-> MAX_FILE_SIZE + 1024,
   content |-> <<104>>]
XyzFile ==
  [name |-> <<"blob.xyz">>, type |-> <<"application/xyz">>, size |-> 1024, content |-> <<104, 105>>]
LargeXyzFile ==
  [name |-> <<"blob.xyz">>, type |-> <<"application/xyz">>, size |-> MAX_FILE_SIZE + 1024,
   content |-> <<104>>]

FullWallet == [publicKey |-> <<"W1">>, arweaveJwk |-> TRUE]
SolanaWallet == [publicKey |-> <<"W1">>, arweaveJwk |-> FALSE]
ArweaveWallet == [publicKey |-> Undefined, arweaveJwk |-> TRUE]

NoMetadata == [name |-> Undefined, description |-> Undefined, tags |-> {}]
SomeMetadata == [name |-> <<"Title">>, description |-> <<"about">>, tags |-> {"t"}]

Options(preferredStorage, registerOnChain) ==
  [preferredStorage |-> preferredStorage, registerOnChain |-> registerOnChain]

UploadRequest(file, wallet, metadata, options) ==
  [file |-> file, wallet |-> wallet, metadata |-> metadata, options |-> options]

\* The calls of uploadDocument the model makes: every branch of the function
\* (validation failures, both backends, with and without registration,
\* missing Arweave key, disconnected wallet).
UploadRequests ==
  { UploadRequest(PdfFile, FullWallet, NoMetadata, Options(Undefined, "undefined")),
    UploadRequest(TxtFile, FullWallet, SomeMetadata, Options(<<"ipfs">>, "true")),
    UploadRequest(PdfFile, FullWallet, SomeMetadata, Options(<<"arweave">>, "undefined")),
    UploadRequest(TxtFile, ArweaveWallet, NoMetadata, Options(<<"arweave">>, "false")),
    UploadRequest(PdfFile, SolanaWallet, NoMetadata, Options(<<"arweave">>, "true")),
    UploadRequest(TxtFile, ArweaveWallet, NoMetadata, Options(Undefined, "undefined")),
    UploadRequest(LargeFile, FullWallet, NoMetadata, Options(Undefined, "undefined")),
    UploadRequest(XyzFile, FullWallet, NoMetadata, Options(<<"arweave">>, "undefined")),
    UploadRequest(LargeXyzFile, FullWallet, NoMetadata, Options(Undefined, "false")) }

\* Outcome of each external collaborator during one call (TRUE = reachable and
\* accepting).  arweaveGateway / arweaveApi are the two routes of
\* downloadFromArweave.
Env(read, ipfs, arweave, arweaveGateway, arweaveApi, ledgerUp) ==
  [ read |-> read, ipfs |-> ipfs, arweave |-> arweave, arweaveGateway |-> arweaveGateway,
    arweaveApi |-> arweaveApi, ledger |-> ledgerUp ]

(***************************************************************************)
(* State.                                                                  *)
(***************************************************************************)
VARIABLES
  held,        \* the Document object the caller holds: <<>> or <<document>>
  origin,      \* the operation that last wrote that object, and the bytes it was given
  ipfsPins,    \* CIDs pinned on IPFS
  arweaveTxs,  \* data of the Arweave transactions, by transaction number
  ledger,      \* document accounts registered by the Solana program
  program,     \* program.ts `let program`: <<>> (null) or <<the Program client>>
  now,         \* Date.now()
  call,        \* the last operation called and its arguments
  trace,       \* the asynchronous / network steps the last operation started, in order
  result,      \* what the last operation returned or threw
  config,      \* DocumentCache.config
  cache,       \* DocumentCache.cache: the Map of cached Document records
  contentCache,\* DocumentCache.contentCache: the Map of cached content
  pending,     \* the async calls that await (a fetcher, fetchIdl, a transaction), by slot
  lastCached   \* history: expiresAt of the entry last cached for an id's content

cacheVars == <<config, cache, contentCache, pending, lastCached>>

documentVars == <<held, origin, ipfsPins, arweaveTxs, ledger, program>>

vars == <<held, origin, ipfsPins, arweaveTxs, ledger, program, now, call, trace, result,
          config, cache, contentCache, pending, lastCached>>

Ev(step, ok) == [step |-> step, ok |-> ok]

Return(v) == [kind |-> "return", value |-> v]
Throw(e) == [kind |-> "throw", value |-> e]

EmptyStorageInfo ==
  [ ipfsCid |-> Undefined, arweaveTxId |-> Undefined, solanaSignature |-> Undefined,
    documentPDA |-> Undefined, location |-> Undefined, hash |-> Undefined,
    originalName |-> Undefined ]

(***************************************************************************)
(* Hashing and the storage adapters.                                       *)
(***************************************************************************)
\* SHA-256 hex digest: a function of the bytes alone, injective on the model's
\* contents.
createDocumentHash(content) == <<"sha256", content>>

\* Pinata returns the content identifier of the pinned bytes.
IpfsHash(content) == <<"Qm", content>>

\* uploadToIPFS: the CID, or the network error rethrown.
uploadToIPFS(content, env) ==
  IF env.ipfs
  THEN [res |-> Return(IpfsHash(content)), ipfsPins |-> ipfsPins \cup {IpfsHash(content)}]
  ELSE [res |-> Throw(<<"ipfs: Network Error">>), ipfsPins |-> ipfsPins]

\* downloadFromIPFS: the gateway serves the bytes a pinned CID addresses.
downloadFromIPFS(cid, env) ==
  IF env.ipfs /\ cid \in ipfsPins
  THEN Return(cid[2])
  ELSE Throw(<<"ipfs: Request failed">>)

ArweaveTxId(n) == <<"ar", n>>

\* uploadToArweave: a new signed transaction; its id on 200/202, else throws.
uploadToArweave(data, env) ==
  IF env.arweave
  THEN [res |-> Return(ArweaveTxId(Len(arweaveTxs) + 1)),
        arweaveTxs |-> Append(arweaveTxs, data)]
  ELSE [res |-> Throw(<<"Failed to upload to Arweave">>), arweaveTxs |-> arweaveTxs]

ArweaveHas(txId) ==
  /\ Len(txId) = 2
  /\ txId[1] = "ar"
  /\ txId[2] \in 1..Len(arweaveTxs)

\* A downloadFromArweave that gives up when the gateway request fails.
downloadFromArweaveGatewayOnly(txId, env) ==
  IF env.arweaveGateway /\ ArweaveHas(txId)
  THEN [res |-> Return(arweaveTxs[txId[2]]),
        trace |-> <<Ev("arweave.gateway.get", TRUE)>>]
  ELSE [res |-> Throw(<<"arweave: gateway request failed">>),
        trace |-> <<Ev("arweave.gateway.get", FALSE)>>]

\* downloadFromArweave: the gateway first, then the arweave client; the steps
\* it started and the bytes or the client's error.
downloadFromArweave(txId, env) ==
  IF env.arweaveGateway /\ ArweaveHas(txId)
  THEN [res |-> Return(arweaveTxs[txId[2]]),
        trace |-> <<Ev("arweave.gateway.get", TRUE)>>]
  ELSE IF env.arweaveApi /\ ArweaveHas(txId)
  THEN [res |-> Return(arweaveTxs[txId[2]]),
        trace |-> <<Ev("arweave.gateway.get", FALSE), Ev("arweave.api.get", TRUE)>>]
  ELSE [res |-> Throw(<<"arweave: getData failed">>),
        trace |-> <<Ev("arweave.gateway.get", FALSE), Ev("arweave.api.get", FALSE)>>]

(***************************************************************************)
(* The ledger client (solana/document.ts).                                 *)
(***************************************************************************)
TxSignature(n) == <<"sig", n>>

DocumentPDA(authority, documentCount) == <<"pda", authority[1], documentCount>>

\* new Connection(DEVNET_ENDPOINT), the connection the document service opens.
DEVNET_ENDPOINT == <<"https://api.devnet.solana.com">>

\* new Program(idl, getProgramId(), new AnchorProvider(connection, wallet, ...)):
\* the client sends through that connection and signs with that wallet.
Program(connection, wallet) == [connection |-> connection, wallet |-> wallet]

\* getProgram from the point Program.fetchIdl settles (with the IDL, with
\* null, or rejected): the assignment to `program` and the return, or the
\* error rethrown by the catch block.
programFetched(connection, wallet, fetched) ==
  IF fetched = "idl"
  THEN [ res |-> Return(Program(connection, wallet)),
         program |-> <<Program(connection, wallet)>> ]
  ELSE IF fetched = "null"
  THEN [res |-> Throw(<<"IDL not found for program">>), program |-> program]
  ELSE [res |-> Throw(<<"ledger: failed to load program">>), program |-> program]

\* getProgram run to its end within one step of its caller.
getProgram(connection, wallet, env) ==
  IF program # <<>>
  THEN [res |-> Return(program[1]), trace |-> <<>>, program |-> program]
  ELSE LET fetched == programFetched(connection, wallet,
                                     IF env.ledger THEN "idl" ELSE "rejected")
       IN [ res |-> fetched.res, trace |-> <<Ev("ledger.getProgram", env.ledger)>>,
            program |-> fetched.program ]

\* registerDocument up to its transaction: the wallet check, getProgram, the
\* fetch of documentCount and the address derived from it.
readDocumentAddress(wallet, env) ==
  IF ~Truthy(wallet.publicKey)
  THEN [res |-> Throw(<<"Wallet not connected">>), trace |-> <<>>, program |-> program]
  ELSE
    LET loaded == getProgram(DEVNET_ENDPOINT, wallet, env) IN
    IF loaded.res.kind = "throw"
    THEN loaded
    ELSE IF ~env.ledger
    THEN [ res |-> Throw(<<"ledger: request failed">>),
           trace |-> loaded.trace \o <<Ev("ledger.fetchCount", FALSE)>>,
           program |-> loaded.program ]
    ELSE [ res |-> Return(DocumentPDA(wallet.publicKey, Len(ledger))),
           trace |-> loaded.trace \o <<Ev("ledger.fetchCount", TRUE)>>,
           program |-> loaded.program ]

\* A submit that reads the count again and derives the address from it.
submitRegistrationRereading(wallet, documentPDA, documentHash, documentName, documentType, env) ==
  IF ~env.ledger
  THEN [ res |-> Throw(<<"ledger: request failed">>),
         trace |-> <<Ev("ledger.rpc", FALSE)>>, ledger |-> ledger ]
  ELSE [ res |-> Return(TxSignature(Len(ledger) + 1)),
         trace |-> <<Ev("ledger.rpc", TRUE)>>,
         ledger |-> Append(ledger,
                      [ pda |-> DocumentPDA(wallet.publicKey, Len(ledger)),
                        authority |-> wallet.publicKey, documentHash |-> documentHash,
                        documentName |-> documentName, documentType |-> documentType ]) ]

\* The registerDocument transaction sent to documentPDA, the address derived
\* before: the program creates the document account there, and the runtime
\* refuses to create an account at an address in use.
submitRegistration(wallet, documentPDA, documentHash, documentName, documentType, env) ==
  IF ~env.ledger
  THEN [ res |-> Throw(<<"ledger: request failed">>),
         trace |-> <<Ev("ledger.rpc", FALSE)>>, ledger |-> ledger ]
  ELSE IF \E k \in 1..Len(ledger) : ledger[k].pda = documentPDA
  THEN [ res |-> Throw(<<"ledger: account already in use">>),
         trace |-> <<Ev("ledger.rpc", FALSE)>>, ledger |-> ledger ]
  ELSE [ res |-> Return(TxSignature(Len(ledger) + 1)),
         trace |-> <<Ev("ledger.rpc", TRUE)>>,
         ledger |-> Append(ledger,
                      [ pda |-> documentPDA,
                        authority |-> wallet.publicKey, documentHash |-> documentHash,
                        documentName |-> documentName, documentType |-> documentType ]) ]

\* A registerDocument whose catch block logs the error and resolves with
\* undefined instead of rethrowing.
registerDocumentSwallowing(wallet, documentHash, documentName, documentType, env) ==
  LET read == readDocumentAddress(wallet, env) IN
  IF read.res.kind = "throw"
  THEN [ res |-> Return(Undefined), trace |-> read.trace, ledger |-> ledger,
         program |-> read.program ]
  ELSE
    LET sent == submitRegistration(wallet, read.res.value, documentHash, documentName,
                                   documentType, env)
    IN [ res |-> IF sent.res.kind = "throw" THEN Return(Undefined) ELSE sent.res,
         trace |-> read.trace \o sent.trace, ledger |-> sent.ledger,
         program |-> read.program ]

\* registerDocument: the transaction signature, or the error rethrown by its
\* catch block; the document account the program creates on success.
registerDocument(wallet, documentHash, documentName, documentType, env) ==
  LET read == readDocumentAddress(wallet, env) IN
  IF read.res.kind = "throw"
  THEN [ res |-> read.res, trace |-> read.trace, ledger |-> ledger,
         program |-> read.program ]
  ELSE
    LET sent == submitRegistration(wallet, read.res.value, documentHash, documentName,
                                   documentType, env)
    IN [ res |-> sent.res, trace |-> read.trace \o sent.trace, ledger |-> sent.ledger,
         program |-> read.program ]

(***************************************************************************)
(* blockchain/solana/index.ts                                              *)
(***************************************************************************)
\* verifyDocumentOwnership: the body of its try block is `return true`, which
\* cannot throw; neither the connection nor the hash is looked at.
verifyDocumentOwnership(connection, documentHash) == Return(TRUE)

(***************************************************************************)
(* services/document/index.ts                                              *)
(***************************************************************************)
\* A validateFile that checks the type before the size.
validateFileTypeFirst(file) ==
  IF file.type \notin SUPPORTED_FILE_TYPES
  THEN [valid |-> FALSE, message |-> <<"File type is not supported", file.type[1]>>]
  ELSE IF file.size > MAX_FILE_SIZE
  THEN [valid |-> FALSE,
        message |-> <<"File size exceeds maximum allowed", MAX_FILE_SIZE \div (1024 * 1024), "MB">>]
  ELSE [valid |-> TRUE, message |-> Undefined]

validateFile(file) ==
  IF file.size > MAX_FILE_SIZE
  THEN [valid |-> FALSE,
        message |-> <<"File size exceeds maximum allowed", MAX_FILE_SIZE \div (1024 * 1024), "MB">>]
  ELSE IF file.type \notin SUPPORTED_FILE_TYPES
  THEN [valid |-> FALSE, message |-> <<"File type is not supported", file.type[1]>>]
  ELSE [valid |-> TRUE, message |-> Undefined]

\* What an operation hands back to its action: the outcome, the steps it
\* started, and the collaborators' state after it.
Outcome(res, tr, pins, txs, led, prog) ==
  [ res |-> res, trace |-> tr, ipfsPins |-> pins, arweaveTxs |-> txs, ledger |-> led,
    program |-> prog ]

\* An "Upload to preferred storage" block that goes on to the other backend
\* when the put on the preferred one fails.
uploadStorageWithFallback(file, wallet, metadata, options, documentHash, env) ==
  LET ipfsFirst == ~Truthy(options.preferredStorage) \/ options.preferredStorage = <<"ipfs">>
      ip == uploadToIPFS(file.content, env)
      ar == uploadToArweave(file.content, env)
      ipEv == <<Ev("ipfs.put", ip.res.kind = "return")>>
      arEv == <<Ev("arweave.put", ar.res.kind = "return")>>
      viaIpfs(tr) == [ res |-> IF ip.res.kind = "return"
                               THEN Return([EmptyStorageInfo EXCEPT !.ipfsCid = ip.res.value])
                               ELSE ip.res,
                       trace |-> tr, ipfsPins |-> ip.ipfsPins, arweaveTxs |-> arweaveTxs ]
      viaArweave(tr) == [ res |-> IF ar.res.kind = "return"
                                  THEN Return([EmptyStorageInfo EXCEPT
                                                 !.arweaveTxId = ar.res.value])
                                  ELSE ar.res,
                          trace |-> tr, ipfsPins |-> ipfsPins, arweaveTxs |-> ar.arweaveTxs ]
  IN
  IF ipfsFirst
  THEN IF ip.res.kind = "return" THEN viaIpfs(ipEv) ELSE viaArweave(ipEv \o arEv)
  ELSE IF ar.res.kind = "return" THEN viaArweave(arEv) ELSE viaIpfs(arEv \o ipEv)

\* The "Upload to preferred storage" block: the storageInfo with the locator
\* of the chosen backend, or the error thrown.
uploadStorage(file, wallet, metadata, options, documentHash, env) ==
  IF ~Truthy(options.preferredStorage) \/ options.preferredStorage = <<"ipfs">>
  THEN LET up == uploadToIPFS(file.content, env) IN
       [ res |-> IF up.res.kind = "return"
                 THEN Return([EmptyStorageInfo EXCEPT !.ipfsCid = up.res.value])
                 ELSE up.res,
         trace |-> <<Ev("ipfs.put", up.res.kind = "return")>>,
         ipfsPins |-> up.ipfsPins, arweaveTxs |-> arweaveTxs ]
  ELSE IF options.preferredStorage = <<"arweave">>
  THEN IF ~wallet.arweaveJwk
       THEN [ res |-> Throw(<<"Arweave wallet is required for Arweave storage">>),
              trace |-> <<>>, ipfsPins |-> ipfsPins, arweaveTxs |-> arweaveTxs ]
       ELSE LET up == uploadToArweave(file.content, env) IN
            [ res |-> IF up.res.kind = "return"
                      THEN Return([EmptyStorageInfo EXCEPT !.arweaveTxId = up.res.value])
                      ELSE up.res,
              trace |-> <<Ev("arweave.put", up.res.kind = "return")>>,
              ipfsPins |-> ipfsPins, arweaveTxs |-> up.arweaveTxs ]
  ELSE [ res |-> Return(EmptyStorageInfo), trace |-> <<>>,
         ipfsPins |-> ipfsPins, arweaveTxs |-> arweaveTxs ]

uploadDocument(file, wallet, metadata, options, env) ==
  LET validation == validateFile(file) IN
  IF ~validation.valid
  THEN Outcome(Throw(validation.message), <<>>, ipfsPins, arweaveTxs, ledger, program)
  ELSE IF ~env.read
  THEN Outcome(Throw(<<"Failed to read file">>), <<Ev("readFile", FALSE)>>,
               ipfsPins, arweaveTxs, ledger, program)
  ELSE
    LET documentHash == createDocumentHash(file.content)
        st == uploadStorage(file, wallet, metadata, options, documentHash, env)
        t1 == <<Ev("readFile", TRUE)>> \o st.trace
    IN
    IF st.res.kind = "throw"
    THEN Outcome(st.res, t1, st.ipfsPins, st.arweaveTxs, ledger, program)
    ELSE
      LET reg == IF options.registerOnChain # "false"
                 THEN registerDocument(wallet, documentHash,
                                       OrElse(metadata.name, file.name), file.type, env)
                 ELSE [res |-> Return(Undefined), trace |-> <<>>, ledger |-> ledger, program |-> program]
          t2 == t1 \o reg.trace
      IN
      IF reg.res.kind = "throw"
      THEN Outcome(reg.res, t2, st.ipfsPins, st.arweaveTxs, ledger, reg.program)
      ELSE Outcome(
             Return([ id |-> documentHash,
                      name |-> OrElse(metadata.name, file.name),
                      description |-> metadata.description,
                      fileType |-> file.type,
                      fileSize |-> file.size,
                      createdAt |-> now,
                      updatedAt |-> now,
                      storageInfo |-> [st.res.value EXCEPT !.solanaSignature = reg.res.value],
                      owner |-> IF wallet.publicKey # Undefined THEN wallet.publicKey
                                ELSE EmptyString,
                      version |-> 1,
                      status |-> "active",
                      tags |-> metadata.tags ]),
             t2, st.ipfsPins, st.arweaveTxs, reg.ledger, reg.program)

\* A downloadDocument whose IPFS catch block rethrows instead of going on to
\* Arweave.
downloadDocumentWithoutFallback(document, env) ==
  IF Truthy(document.storageInfo.ipfsCid)
  THEN LET ip == downloadFromIPFS(document.storageInfo.ipfsCid, env) IN
       [res |-> ip, trace |-> <<Ev("ipfs.get", ip.kind = "return")>>]
  ELSE IF Truthy(document.storageInfo.arweaveTxId)
  THEN LET ar == downloadFromArweave(document.storageInfo.arweaveTxId, env) IN
       IF ar.res.kind = "return"
       THEN ar
       ELSE [res |-> Throw(<<"Failed to download document from any storage source">>),
             trace |-> ar.trace]
  ELSE [res |-> Throw(<<"No valid storage information available for this document">>),
        trace |-> <<>>]

\* A downloadDocument that asks Arweave as well after IPFS has answered, and
\* returns the IPFS bytes.
downloadDocumentAskingBoth(document, env) ==
  LET ip == IF Truthy(document.storageInfo.ipfsCid)
            THEN <<downloadFromIPFS(document.storageInfo.ipfsCid, env)>>
            ELSE <<>>
      t1 == IF ip = <<>> THEN <<>> ELSE <<Ev("ipfs.get", ip[1].kind = "return")>>
      ar == IF Truthy(document.storageInfo.arweaveTxId)
            THEN <<downloadFromArweave(document.storageInfo.arweaveTxId, env)>>
            ELSE <<>>
      t2 == IF ar = <<>> THEN t1 ELSE t1 \o ar[1].trace
  IN
  IF ip # <<>> /\ ip[1].kind = "return"
  THEN [res |-> ip[1], trace |-> t2]
  ELSE IF ar # <<>> /\ ar[1].res.kind = "return"
  THEN [res |-> ar[1].res, trace |-> t2]
  ELSE IF ar # <<>>
  THEN [res |-> Throw(<<"Failed to download document from any storage source">>), trace |-> t2]
  ELSE [res |-> Throw(<<"No valid storage information available for this document">>),
        trace |-> t2]

\* A downloadDocument that recomputes the hash of the fetched bytes and throws
\* when it differs from document.id.
downloadDocumentRejectingMismatch(document, env) ==
  LET ip == IF Truthy(document.storageInfo.ipfsCid)
            THEN <<downloadFromIPFS(document.storageInfo.ipfsCid, env)>>
            ELSE <<>>
      t1 == IF ip = <<>> THEN <<>> ELSE <<Ev("ipfs.get", ip[1].kind = "return")>>
      checked(res) == IF createDocumentHash(res.value) = document.id
                      THEN res
                      ELSE Throw(<<"Document integrity check failed">>)
  IN
  IF ip # <<>> /\ ip[1].kind = "return"
  THEN [res |-> checked(ip[1]), trace |-> t1]
  ELSE IF Truthy(document.storageInfo.arweaveTxId)
  THEN LET ar == downloadFromArweave(document.storageInfo.arweaveTxId, env) IN
       IF ar.res.kind = "return"
       THEN [res |-> checked(ar.res), trace |-> t1 \o ar.trace]
       ELSE [res |-> Throw(<<"Failed to download document from any storage source">>),
             trace |-> t1 \o ar.trace]
  ELSE [res |-> Throw(<<"No valid storage information available for this document">>),
        trace |-> t1]

\* downloadDocument: IPFS first when the record has a CID, then Arweave when
\* it has a transaction id; the bytes (a bare Buffer) or the error thrown, and
\* the gets it issued in order.
downloadDocument(document, env) ==
  LET ipfsTry == IF Truthy(document.storageInfo.ipfsCid)
                 THEN <<downloadFromIPFS(document.storageInfo.ipfsCid, env)>>
                 ELSE <<>>
      t1 == IF ipfsTry = <<>> THEN <<>>
            ELSE <<Ev("ipfs.get", ipfsTry[1].kind = "return")>>
  IN
  IF ipfsTry # <<>> /\ ipfsTry[1].kind = "return"
  THEN [res |-> ipfsTry[1], trace |-> t1]
  ELSE IF Truthy(document.storageInfo.arweaveTxId)
  THEN LET ar == downloadFromArweave(document.storageInfo.arweaveTxId, env) IN
       IF ar.res.kind = "return"
       THEN [res |-> ar.res, trace |-> t1 \o ar.trace]
       ELSE [res |-> Throw(<<"Failed to download document from any storage source">>),
             trace |-> t1 \o ar.trace]
  ELSE [res |-> Throw(<<"No valid storage information available for this document">>),
        trace |-> t1]

\* The `verified` member of what downloadDocument resolves with: it resolves
\* with the Buffer itself, which has no such member.
VerifiedFlag(value) == Undefined

\* updateDocument (ledger): the transaction signature or the error rethrown;
\* the program rebinds the account's hash.
updateDocument(wallet, documentPDA, documentHash, env) ==
  IF ~Truthy(wallet.publicKey)
  THEN [ res |-> Throw(<<"Wallet not connected">>), trace |-> <<>>, ledger |-> ledger,
         program |-> program ]
  ELSE
    LET loaded == getProgram(DEVNET_ENDPOINT, wallet, env) IN
    IF loaded.res.kind = "throw"
    THEN [ res |-> loaded.res, trace |-> loaded.trace, ledger |-> ledger,
           program |-> loaded.program ]
    ELSE IF ~env.ledger
    THEN [ res |-> Throw(<<"ledger: request failed">>),
           trace |-> loaded.trace \o <<Ev("ledger.rpc", FALSE)>>, ledger |-> ledger,
           program |-> loaded.program ]
    ELSE IF \A k \in 1..Len(ledger) :
              ledger[k].pda # documentPDA \/ ledger[k].authority # wallet.publicKey
    THEN [ res |-> Throw(<<"ledger: transaction rejected">>),
           trace |-> loaded.trace \o <<Ev("ledger.rpc", FALSE)>>, ledger |-> ledger,
           program |-> loaded.program ]
    ELSE [ res |-> Return(<<"sig", "update", documentHash>>),
           trace |-> loaded.trace \o <<Ev("ledger.rpc", TRUE)>>,
           ledger |-> [k \in 1..Len(ledger) |->
                         IF ledger[k].pda = documentPDA
                         THEN [ledger[k] EXCEPT !.documentHash = documentHash]
                         ELSE ledger[k]],
           program |-> loaded.program ]

\* updateDocumentContent mutates the Document it is given, field by field, as
\* the calls succeed; `doc` is the object afterwards, whether it returned or
\* threw.
\* An update that pins the new content and keeps the CID it had recorded.
updateDocumentContentKeepingCid(document, newContent, wallet, env) ==
  LET documentHash == createDocumentHash(newContent)
      upd == IF Truthy(document.storageInfo.documentPDA)
             THEN updateDocument(wallet, document.storageInfo.documentPDA, documentHash, env)
             ELSE [res |-> Return(Undefined), trace |-> <<>>, ledger |-> ledger, program |-> program]
      d1 == IF Truthy(document.storageInfo.documentPDA) /\ upd.res.kind = "return"
            THEN [document EXCEPT !.storageInfo.solanaSignature = upd.res.value]
            ELSE document
  IN
  IF upd.res.kind = "throw"
  THEN [res |-> upd.res, trace |-> upd.trace, doc |-> document,
        ipfsPins |-> ipfsPins, ledger |-> ledger, program |-> upd.program]
  ELSE
    LET put == IF Truthy(d1.storageInfo.ipfsCid)
               THEN uploadToIPFS(newContent, env)
               ELSE [res |-> Return(Undefined), ipfsPins |-> ipfsPins]
        t2 == IF Truthy(d1.storageInfo.ipfsCid)
              THEN upd.trace \o <<Ev("ipfs.put", put.res.kind = "return")>>
              ELSE upd.trace
    IN
    IF put.res.kind = "throw"
    THEN [res |-> put.res, trace |-> t2, doc |-> d1,
          ipfsPins |-> put.ipfsPins, ledger |-> upd.ledger,
          program |-> upd.program]
    ELSE
      LET d2 == d1
          d3 == [d2 EXCEPT !.id = documentHash, !.updatedAt = now, !.version = @ + 1]
      IN [res |-> Return(d3), trace |-> t2, doc |-> d3,
          ipfsPins |-> put.ipfsPins, ledger |-> upd.ledger,
          program |-> upd.program]

\* An update that counts attempts: the version moves before the upload.
updateDocumentContentCountingAttempts(document, newContent, wallet, env) ==
  LET documentHash == createDocumentHash(newContent)
      upd == IF Truthy(document.storageInfo.documentPDA)
             THEN updateDocument(wallet, document.storageInfo.documentPDA, documentHash, env)
             ELSE [res |-> Return(Undefined), trace |-> <<>>, ledger |-> ledger, program |-> program]
      d1 == IF Truthy(document.storageInfo.documentPDA) /\ upd.res.kind = "return"
            THEN [document EXCEPT !.storageInfo.solanaSignature = upd.res.value,
                                  !.version = @ + 1]
            ELSE [document EXCEPT !.version = @ + 1]
  IN
  IF upd.res.kind = "throw"
  THEN [res |-> upd.res, trace |-> upd.trace, doc |-> document,
        ipfsPins |-> ipfsPins, ledger |-> ledger, program |-> upd.program]
  ELSE
    LET put == IF Truthy(d1.storageInfo.ipfsCid)
               THEN uploadToIPFS(newContent, env)
               ELSE [res |-> Return(Undefined), ipfsPins |-> ipfsPins]
        t2 == IF Truthy(d1.storageInfo.ipfsCid)
              THEN upd.trace \o <<Ev("ipfs.put", put.res.kind = "return")>>
              ELSE upd.trace
    IN
    IF put.res.kind = "throw"
    THEN [res |-> put.res, trace |-> t2, doc |-> d1,
          ipfsPins |-> put.ipfsPins, ledger |-> upd.ledger,
          program |-> upd.program]
    ELSE
      LET d2 == IF Truthy(d1.storageInfo.ipfsCid)
                THEN [d1 EXCEPT !.storageInfo.ipfsCid = put.res.value]
                ELSE d1
          d3 == [d2 EXCEPT !.id = documentHash, !.updatedAt = now]
      IN [res |-> Return(d3), trace |-> t2, doc |-> d3,
          ipfsPins |-> put.ipfsPins, ledger |-> upd.ledger,
          program |-> upd.program]

\* An update that writes the new id into the record before it uploads.
updateDocumentContentIdFirst(document, newContent, wallet, env) ==
  LET documentHash == createDocumentHash(newContent)
      upd == IF Truthy(document.storageInfo.documentPDA)
             THEN updateDocument(wallet, document.storageInfo.documentPDA, documentHash, env)
             ELSE [res |-> Return(Undefined), trace |-> <<>>, ledger |-> ledger, program |-> program]
      d1 == IF Truthy(document.storageInfo.documentPDA) /\ upd.res.kind = "return"
            THEN [document EXCEPT !.storageInfo.solanaSignature = upd.res.value,
                                  !.id = documentHash]
            ELSE [document EXCEPT !.id = documentHash]
  IN
  IF upd.res.kind = "throw"
  THEN [res |-> upd.res, trace |-> upd.trace, doc |-> document,
        ipfsPins |-> ipfsPins, ledger |-> ledger, program |-> upd.program]
  ELSE
    LET put == IF Truthy(d1.storageInfo.ipfsCid)
               THEN uploadToIPFS(newContent, env)
               ELSE [res |-> Return(Undefined), ipfsPins |-> ipfsPins]
        t2 == IF Truthy(d1.storageInfo.ipfsCid)
              THEN upd.trace \o <<Ev("ipfs.put", put.res.kind = "return")>>
              ELSE upd.trace
    IN
    IF put.res.kind = "throw"
    THEN [res |-> put.res, trace |-> t2, doc |-> d1,
          ipfsPins |-> put.ipfsPins, ledger |-> upd.ledger,
          program |-> upd.program]
    ELSE
      LET d2 == IF Truthy(d1.storageInfo.ipfsCid)
                THEN [d1 EXCEPT !.storageInfo.ipfsCid = put.res.value]
                ELSE d1
          d3 == [d2 EXCEPT !.updatedAt = now, !.version = @ + 1]
      IN [res |-> Return(d3), trace |-> t2, doc |-> d3,
          ipfsPins |-> put.ipfsPins, ledger |-> upd.ledger,
          program |-> upd.program]

\* An update that drops the Arweave locator it cannot refresh.
updateDocumentContentDroppingArweave(document, newContent, wallet, env) ==
  LET documentHash == createDocumentHash(newContent)
      upd == IF Truthy(document.storageInfo.documentPDA)
             THEN updateDocument(wallet, document.storageInfo.documentPDA, documentHash, env)
             ELSE [res |-> Return(Undefined), trace |-> <<>>, ledger |-> ledger, program |-> program]
      d1 == IF Truthy(document.storageInfo.documentPDA) /\ upd.res.kind = "return"
            THEN [document EXCEPT !.storageInfo.solanaSignature = upd.res.value]
            ELSE document
  IN
  IF upd.res.kind = "throw"
  THEN [res |-> upd.res, trace |-> upd.trace, doc |-> document,
        ipfsPins |-> ipfsPins, ledger |-> ledger, program |-> upd.program]
  ELSE
    LET put == IF Truthy(d1.storageInfo.ipfsCid)
               THEN uploadToIPFS(newContent, env)
               ELSE [res |-> Return(Undefined), ipfsPins |-> ipfsPins]
        t2 == IF Truthy(d1.storageInfo.ipfsCid)
              THEN upd.trace \o <<Ev("ipfs.put", put.res.kind = "return")>>
              ELSE upd.trace
    IN
    IF put.res.kind = "throw"
    THEN [res |-> put.res, trace |-> t2, doc |-> d1,
          ipfsPins |-> put.ipfsPins, ledger |-> upd.ledger,
          program |-> upd.program]
    ELSE
      LET d2 == IF Truthy(d1.storageInfo.ipfsCid)
                THEN [d1 EXCEPT !.storageInfo.ipfsCid = put.res.value]
                ELSE d1
          d3 == [d2 EXCEPT !.id = documentHash, !.updatedAt = now, !.version = @ + 1,
                           !.storageInfo.arweaveTxId = Undefined]
      IN [res |-> Return(d3), trace |-> t2, doc |-> d3,
          ipfsPins |-> put.ipfsPins, ledger |-> upd.ledger,
          program |-> upd.program]

updateDocumentContent(document, newContent, wallet, env) ==
  LET documentHash == createDocumentHash(newContent)
      upd == IF Truthy(document.storageInfo.documentPDA)
             THEN updateDocument(wallet, document.storageInfo.documentPDA, documentHash, env)
             ELSE [res |-> Return(Undefined), trace |-> <<>>, ledger |-> ledger, program |-> program]
      d1 == IF Truthy(document.storageInfo.documentPDA) /\ upd.res.kind = "return"
            THEN [document EXCEPT !.storageInfo.solanaSignature = upd.res.value]
            ELSE document
  IN
  IF upd.res.kind = "throw"
  THEN [res |-> upd.res, trace |-> upd.trace, doc |-> document,
        ipfsPins |-> ipfsPins, ledger |-> ledger, program |-> upd.program]
  ELSE
    LET put == IF Truthy(d1.storageInfo.ipfsCid)
               THEN uploadToIPFS(newContent, env)
               ELSE [res |-> Return(Undefined), ipfsPins |-> ipfsPins]
        t2 == IF Truthy(d1.storageInfo.ipfsCid)
              THEN upd.trace \o <<Ev("ipfs.put", put.res.kind = "return")>>
              ELSE upd.trace
    IN
    IF put.res.kind = "throw"
    THEN [res |-> put.res, trace |-> t2, doc |-> d1,
          ipfsPins |-> put.ipfsPins, ledger |-> upd.ledger,
          program |-> upd.program]
    ELSE
      LET d2 == IF Truthy(d1.storageInfo.ipfsCid)
                THEN [d1 EXCEPT !.storageInfo.ipfsCid = put.res.value]
                ELSE d1
          d3 == [d2 EXCEPT !.id = documentHash, !.updatedAt = now, !.version = @ + 1]
      IN [res |-> Return(d3), trace |-> t2, doc |-> d3,
          ipfsPins |-> put.ipfsPins, ledger |-> upd.ledger,
          program |-> upd.program]

(***************************************************************************)
(* utils/helpers.ts                                                        *)
(***************************************************************************)
\* formatFileSize on a whole number of units: i = floor(log(bytes) / log(k)),
\* then the number of units and the unit's name (the two decimals are .00 and
\* parseFloat drops them).
formatFileSize(bytes) ==
  LET k == 1024
      sizes == <<"Bytes", "KB", "MB", "GB", "TB">>
      RECURSIVE FloorLog(_)
      FloorLog(n) == IF n < k THEN 0 ELSE 1 + FloorLog(n \div k)
      RECURSIVE Pow(_)
      Pow(i) == IF i = 0 THEN 1 ELSE k * Pow(i - 1)
      i == FloorLog(bytes)
  IN IF bytes = 0 THEN <<0, "Bytes">>
     ELSE <<bytes \div Pow(i), sizes[i + 1]>>

\* utils/helpers.ts has its own validateFile, which differs from the one of
\* services/document in the text of the size message only.
helpersValidateFile(file) ==
  IF file.size > MAX_FILE_SIZE
  THEN [valid |-> FALSE,
        message |-> <<"File size exceeds maximum allowed">> \o formatFileSize(MAX_FILE_SIZE)]
  ELSE IF file.type \notin SUPPORTED_FILE_TYPES
  THEN [valid |-> FALSE, message |-> <<"File type is not supported", file.type[1]>>]
  ELSE [valid |-> TRUE, message |-> Undefined]

\* The File objects validateFile is given: sizes around the limit, supported
\* and unsupported types (image/gif is allowed by upload.ts only), no type.
ValidatedFiles ==
  { [name |-> <<"report.pdf">>, type |-> type, size |-> size, content |-> <<104>>] :
      type \in { <<"application/pdf">>, <<"image/svg+xml">>, <<"application/xyz">>,
                 <<"image/gif">>, EmptyString },
      size \in { 0, 1024, MAX_FILE_SIZE, MAX_FILE_SIZE + 1, MAX_FILE_SIZE + 1024 } }

(***************************************************************************)
(* pages/api/documents/index.ts                                            *)
(***************************************************************************)
\* A request body: absent string fields are Undefined, an absent or zero
\* fileSize is 0, storageInfo is a sequence holding the object when present.
Body(name, description, fileType, fileSize, storageInfo, tags) ==
  [ name |-> name, description |-> description, fileType |-> fileType,
    fileSize |-> fileSize, storageInfo |-> storageInfo, tags |-> tags ]

handlePost(body) ==
  IF \/ ~Truthy(body.name)
     \/ ~Truthy(body.fileType)
     \/ body.fileSize = 0
     \/ body.storageInfo = <<>>
  THEN Return([status |-> 400, success |-> FALSE, error |-> <<"Missing required fields">>])
  ELSE Return([status |-> 201, success |-> TRUE,
               data |-> [ id |-> <<"doc", now>>,
                          name |-> body.name,
                          description |-> body.description,
                          fileType |-> body.fileType,
                          fileSize |-> body.fileSize,
                          createdAt |-> now,
                          updatedAt |-> now,
                          storageInfo |-> body.storageInfo[1],
                          owner |-> MOCK_OWNER,
                          version |-> 1,
                          status |-> "active",
                          tags |-> body.tags ]])

(***************************************************************************)
(* pages/api/documents/[id].ts                                             *)
(***************************************************************************)
\* The body of a PUT: absent string fields are Undefined, absent tags are
\* <<>> and present ones <<tags>>, an absent status is "undefined", an absent
\* version is 0.  A body may carry members the handler does not read.
PutBody(name, description, tags, status, id, version) ==
  [ name |-> name, description |-> description, tags |-> tags, status |-> status,
    id |-> id, version |-> version ]

\* The response and the Document object after the handler; a request without
\* a body makes the destructuring throw into the catch block.
handlePutAssigning(req, document) ==
  IF req.body = <<>>
  THEN [ res |-> Return([status |-> 500, success |-> FALSE,
                         error |-> <<"Failed to update document">>]),
         doc |-> document ]
  ELSE
    LET body == req.body[1]
        d1 == IF Truthy(body.name) THEN [document EXCEPT !.name = body.name] ELSE document
        d2 == IF body.description # Undefined
              THEN [d1 EXCEPT !.description = body.description] ELSE d1
        d3 == IF body.tags # <<>> THEN [d2 EXCEPT !.tags = body.tags[1]] ELSE d2
        d4 == IF body.status \notin {"undefined", ""}
              THEN [d3 EXCEPT !.status = body.status] ELSE d3
        d5 == IF Truthy(body.id) THEN [d4 EXCEPT !.id = body.id] ELSE d4
        d6 == IF body.version # 0 THEN [d5 EXCEPT !.version = body.version] ELSE d5
        d7 == [d6 EXCEPT !.updatedAt = now]
    IN [ res |-> Return([status |-> 200, success |-> TRUE, data |-> d7]), doc |-> d7 ]

handlePut(req, document) ==
  IF req.body = <<>>
  THEN [ res |-> Return([status |-> 500, success |-> FALSE,
                         error |-> <<"Failed to update document">>]),
         doc |-> document ]
  ELSE
    LET body == req.body[1]
        d1 == IF Truthy(body.name) THEN [document EXCEPT !.name = body.name] ELSE document
        d2 == IF body.description # Undefined
              THEN [d1 EXCEPT !.description = body.description] ELSE d1
        d3 == IF body.tags # <<>> THEN [d2 EXCEPT !.tags = body.tags[1]] ELSE d2
        d4 == IF body.status \notin {"undefined", ""}
              THEN [d3 EXCEPT !.status = body.status] ELSE d3
        d5 == [d4 EXCEPT !.updatedAt = now]
    IN [ res |-> Return([status |-> 200, success |-> TRUE, data |-> d5]), doc |-> d5 ]

\* The PUT requests the model makes.
PutRequests ==
  { [body |-> <<>>],
    [body |-> <<PutBody(Undefined, Undefined, <<>>, "undefined", Undefined, 0)>>],
    [body |-> <<PutBody(<<"Renamed.pdf">>, Undefined, <<>>, "archived", <<"doc9">>, 7)>>],
    [body |-> <<PutBody(EmptyString, EmptyString, <<{"audit"}>>, "", Undefined, 0)>>] }

(***************************************************************************)
(* services/document/upload.ts                                             *)
(***************************************************************************)
UploadError(type, message) == [type |-> type, message |-> message]

\* fileName.split('.').pop()?.toLowerCase() || ''
Extension(fileName) ==
  LET parts == SplitDot(fileName) IN ToLowerCase(parts[Len(parts)])

\* validateFileSize / validateFileType: the UploadError thrown, if any.
validateFileSize(size, maxSize) ==
  IF size > maxSize
  THEN <<UploadError("FILE_TOO_LARGE", <<"File size exceeds the maximum allowed size">>)>>
  ELSE <<>>

validateFileType(fileName, mimeType) ==
  LET extension == Extension(fileName) IN
  IF extension \notin DOMAIN ALLOWED_FILE_TYPES
  THEN <<UploadError("INVALID_FILE_TYPE", <<"File type is not allowed", extension>>)>>
  ELSE IF mimeType # ALLOWED_FILE_TYPES[extension]
  THEN <<UploadError("INVALID_FILE_TYPE", <<"Invalid MIME type for extension", extension>>)>>
  ELSE <<>>

\* calculateFileHash: 64 random hex digits, whatever the buffer is.
calculateFileHash(fileBuffer, rnd) == <<"hex", rnd>>

\* storeFile: `storage/${uploadedBy}/${Date.now()}-${originalName}`
storeFile(fileBuffer, metadata) ==
  <<"storage", metadata.uploadedBy[1], now, metadata.originalName[1]>>

FileMetadata(fileName, size, mimeType, hash, uploadedBy) ==
  [ originalName |-> fileName, size |-> size, mimeType |-> mimeType,
    extension |-> <<Extension(fileName)>>, hash |-> hash, uploadedBy |-> uploadedBy,
    uploadedAt |-> now ]

FailedUpload(error, fileName, size, mimeType, uploadedBy, tr) ==
  [ res |-> Return([ success |-> FALSE, document |-> <<>>, error |-> <<error>>,
                     metadata |-> FileMetadata(fileName, size, mimeType, Undefined, uploadedBy),
                     storageLocation |-> EmptyString ]),
    trace |-> tr ]

\* An error that is not an UploadError: it has no `type` member.
PlainError(message) == [type |-> "undefined", message |-> message]

\* A catch block that reports every error as UPLOAD_FAILED.
catchUploadErrorWrappingAll(error, fileName, size, mimeType, uploadedBy, tr) ==
  FailedUpload(UploadError("UPLOAD_FAILED", <<"File upload failed">>),
               fileName, size, mimeType, uploadedBy, tr)

\* The catch block of processFileUpload: an UploadError is returned as it is,
\* any other error as a new UploadError of type UPLOAD_FAILED.
catchUploadError(error, fileName, size, mimeType, uploadedBy, tr) ==
  IF error.type # "undefined"
  THEN FailedUpload(error, fileName, size, mimeType, uploadedBy, tr)
  ELSE FailedUpload(UploadError("UPLOAD_FAILED", <<"File upload failed">>),
                    fileName, size, mimeType, uploadedBy, tr)

\* Steps 4 and 6 of processFileUpload when the promise awaited rejects.
HashRejected == PlainError(<<"hash: failed">>)

StoreRejected == PlainError(<<"storage: failed">>)

\* Steps 4 to 7 of processFileUpload: hash, metadata, store, Document object.
CompletedUpload(fileBuffer, fileName, mimeType, size, uploadedBy, hashRnd, idRnd) ==
  LET hash == calculateFileHash(fileBuffer, hashRnd)
      metadata == FileMetadata(fileName, size, mimeType, hash, uploadedBy)
      storageLocation == storeFile(fileBuffer, metadata)
  IN
  [ res |-> Return([ success |-> TRUE,
                     document |-> << [ id |-> <<"doc-", now, idRnd>>,
                                       name |-> fileName,
                                       description |-> EmptyString,
                                       fileType |-> metadata.extension,
                                       fileSize |-> size,
                                       createdAt |-> metadata.uploadedAt,
                                       updatedAt |-> metadata.uploadedAt,
                                       storageInfo |->
                                         [EmptyStorageInfo EXCEPT
                                            !.location = storageLocation,
                                            !.hash = hash,
                                            !.originalName = fileName],
                                       owner |-> uploadedBy,
                                       version |-> 1,
                                       status |-> "processing",
                                       tags |-> {} ] >>,
                     error |-> <<>>,
                     metadata |-> metadata,
                     storageLocation |-> storageLocation ]),
    trace |-> <<Ev("scan", TRUE), Ev("hash", TRUE), Ev("store", TRUE)>> ]

VirusDetected ==
  UploadError("VIRUS_DETECTED", <<"Potential security threat detected in the file">>)

\* A processFileUpload that scans the buffer before it validates size and type.
processFileUploadScanFirst(fileBuffer, fileName, mimeType, size, uploadedBy, isSafe, hashRnd, idRnd, hashOk, storeOk) ==
  LET sizeErr == validateFileSize(size, UPLOAD_MAX_FILE_SIZE)
      typeErr == validateFileType(fileName, mimeType)
      scanned == <<Ev("scan", TRUE)>>
  IN
  IF ~isSafe
  THEN catchUploadError(VirusDetected, fileName, size, mimeType, uploadedBy, scanned)
  ELSE IF sizeErr # <<>>
  THEN catchUploadError(sizeErr[1], fileName, size, mimeType, uploadedBy, scanned)
  ELSE IF typeErr # <<>>
  THEN catchUploadError(typeErr[1], fileName, size, mimeType, uploadedBy, scanned)
  ELSE IF ~hashOk
  THEN catchUploadError(HashRejected, fileName, size, mimeType, uploadedBy,
                        scanned \o <<Ev("hash", FALSE)>>)
  ELSE IF ~storeOk
  THEN catchUploadError(StoreRejected, fileName, size, mimeType, uploadedBy,
                        scanned \o <<Ev("hash", TRUE), Ev("store", FALSE)>>)
  ELSE CompletedUpload(fileBuffer, fileName, mimeType, size, uploadedBy, hashRnd, idRnd)

\* processFileUpload: isSafe is the scanner's verdict, hashRnd and idRnd the
\* values of Math.random() behind the hash and the id, hashOk and storeOk
\* whether the promises of calculateFileHash and storeFile resolve (the
\* stand-ins in the file always do).  Every error is caught and returned as
\* { success: false }.
processFileUpload(fileBuffer, fileName, mimeType, size, uploadedBy, isSafe, hashRnd, idRnd, hashOk, storeOk) ==
  LET sizeErr == validateFileSize(size, UPLOAD_MAX_FILE_SIZE)
      typeErr == validateFileType(fileName, mimeType)
      scanned == <<Ev("scan", TRUE)>>
  IN
  IF sizeErr # <<>>
  THEN catchUploadError(sizeErr[1], fileName, size, mimeType, uploadedBy, <<>>)
  ELSE IF typeErr # <<>>
  THEN catchUploadError(typeErr[1], fileName, size, mimeType, uploadedBy, <<>>)
  ELSE IF ~isSafe
  THEN catchUploadError(VirusDetected, fileName, size, mimeType, uploadedBy, scanned)
  ELSE IF ~hashOk
  THEN catchUploadError(HashRejected, fileName, size, mimeType, uploadedBy,
                        scanned \o <<Ev("hash", FALSE)>>)
  ELSE IF ~storeOk
  THEN catchUploadError(StoreRejected, fileName, size, mimeType, uploadedBy,
                        scanned \o <<Ev("hash", TRUE), Ev("store", FALSE)>>)
  ELSE CompletedUpload(fileBuffer, fileName, mimeType, size, uploadedBy, hashRnd, idRnd)

\* generatePreSignedUploadUrl: rejects with the validation error, else
\* resolves with the URL after the simulated round trip.
generatePreSignedUploadUrl(fileName, mimeType, size, uploadedBy) ==
  LET sizeErr == validateFileSize(size, UPLOAD_MAX_FILE_SIZE)
      typeErr == validateFileType(fileName, mimeType)
  IN
  IF sizeErr # <<>> THEN [res |-> Throw(sizeErr[1]), trace |-> <<>>]
  ELSE IF typeErr # <<>> THEN [res |-> Throw(typeErr[1]), trace |-> <<>>]
  ELSE [ res |-> Return([ url |-> <<"https://api.example.com/upload/", uploadedBy[1], now,
                                    fileName[1]>>,
                          contentType |-> mimeType ]),
         trace |-> <<Ev("presign", TRUE)>> ]

ProcessRequest(fileBuffer, fileName, mimeType, size, uploadedBy) ==
  [ fileBuffer |-> fileBuffer, fileName |-> fileName, mimeType |-> mimeType,
    size |-> size, uploadedBy |-> uploadedBy ]

\* The calls of processFileUpload / generatePreSignedUploadUrl the model makes.
ProcessRequests ==
  { ProcessRequest(<<104>>, <<"report.pdf">>, <<"application/pdf">>, 1024, <<"u1">>),
    ProcessRequest(<<104>>, <<"report.pdf">>, <<"application/pdf">>,
                   UPLOAD_MAX_FILE_SIZE + 1, <<"u1">>),
    ProcessRequest(<<104>>, <<"blob.xyz">>, <<"application/xyz">>, 1024, <<"u1">>),
    ProcessRequest(<<104>>, <<"NOTES.TXT">>, <<"application/pdf">>, 1024, <<"u1">>),
    ProcessRequest(<<104>>, <<"blob.xyz">>, <<"application/xyz">>,
                   UPLOAD_MAX_FILE_SIZE + 1, <<"u1">>) }

(***************************************************************************)
(* services/document/cache.ts: the DocumentCache class.                    *)
(*                                                                         *)
(* A JS Map is the sequence of its entries <<key, item>> in insertion      *)
(* order: set of a key the Map has keeps the key's place, delete closes   *)
(* the gap.  An optional number that is absent is 0 (both are falsy).      *)
(* What a getter returns is <<>> for null and <<data>> for data.           *)
(***************************************************************************)
DEFAULT_CACHE_EXPIRATION == 15 * 60 * 1000

\* a || b on optional numbers
NumOrElse(a, b) == IF a # 0 THEN a ELSE b

CacheItem(data, timestamp, expiresAt) ==
  [data |-> data, timestamp |-> timestamp, expiresAt |-> expiresAt]

MapHas(m, key) == \E n \in 1..Len(m) : m[n][1] = key

MapGet(m, key) ==
  IF MapHas(m, key)
  THEN <<(CHOOSE e \in {m[n] : n \in 1..Len(m)} : e[1] = key)[2]>>
  ELSE <<>>

MapSetAppending(m, key, item) == Append(m, <<key, item>>)

MapSet(m, key, item) ==
  IF MapHas(m, key)
  THEN [n \in 1..Len(m) |-> IF m[n][1] = key THEN <<key, item>> ELSE m[n]]
  ELSE Append(m, <<key, item>>)

MapDelete(m, key) == SelectSeq(m, LAMBDA e : e[1] # key)

\* The ids of the cached documents, the capacities a cache is constructed
\* with (0: none given) and the expirations a call passes (0: none given).
DocumentIds == { <<"doc1">>, <<"doc2">>, <<"doc3">> }
MaxSizes == {0, 1, 2}
Expirations == {0, 1}
Versions == {1, 2}

\* new DocumentCache(config)
DocumentCache(maxSize, defaultExpiration) ==
  [ maxSize |-> NumOrElse(maxSize, 50),
    defaultExpiration |-> NumOrElse(defaultExpiration, DEFAULT_CACHE_EXPIRATION) ]

\* Array.prototype.sort((a, b) => a[1].timestamp - b[1].timestamp): a stable
\* sort, so entries of equal timestamp keep the order of the array.
InsertLatestFirst(sorted, e) ==
  LET n == Cardinality({i \in 1..Len(sorted) : sorted[i][2].timestamp < e[2].timestamp})
  IN SubSeq(sorted, 1, n) \o <<e>> \o SubSeq(sorted, n + 1, Len(sorted))

InsertByTimestamp(sorted, e) ==
  LET n == Cardinality({i \in 1..Len(sorted) : sorted[i][2].timestamp <= e[2].timestamp})
  IN SubSeq(sorted, 1, n) \o <<e>> \o SubSeq(sorted, n + 1, Len(sorted))

RECURSIVE SortByTimestamp(_)
SortByTimestamp(entries) ==
  IF entries = <<>> THEN <<>>
  ELSE InsertByTimestamp(SortByTimestamp(SubSeq(entries, 1, Len(entries) - 1)),
                         entries[Len(entries)])

removeOldestItems(m, count) ==
  LET entries == SortByTimestamp(m)
      oldest == {entries[i][1] : i \in {j \in 1..Len(entries) : j <= count}}
  IN SelectSeq(m, LAMBDA e : e[1] \notin oldest)

removeOldestContentItems(m, count) ==
  LET entries == SortByTimestamp(m)
      oldest == {entries[i][1] : i \in {j \in 1..Len(entries) : j <= count}}
  IN SelectSeq(m, LAMBDA e : e[1] \notin oldest)

setDocumentEvictingWhenOver(m, cfg, documentId, document, expiration, t) ==
  LET room == IF Len(m) > cfg.maxSize THEN removeOldestItems(m, 1) ELSE m
      expirationTime == NumOrElse(expiration, cfg.defaultExpiration)
  IN MapSet(room, documentId, CacheItem(document, t, t + expirationTime))

setDocument(m, cfg, documentId, document, expiration, t) ==
  LET room == IF Len(m) >= cfg.maxSize THEN removeOldestItems(m, 1) ELSE m
      expirationTime == NumOrElse(expiration, cfg.defaultExpiration)
  IN MapSet(room, documentId, CacheItem(document, t, t + expirationTime))

getDocumentExpiringEarly(m, documentId, t) ==
  LET cachedItem == MapGet(m, documentId)
  IN IF cachedItem = <<>> THEN [value |-> <<>>, map |-> m]
     ELSE IF cachedItem[1].expiresAt <= t
          THEN [value |-> <<>>, map |-> MapDelete(m, documentId)]
          ELSE [value |-> <<cachedItem[1].data>>, map |-> m]

\* The value returned and the map left behind.
getDocument(m, documentId, t) ==
  LET cachedItem == MapGet(m, documentId)
  IN IF cachedItem = <<>> THEN [value |-> <<>>, map |-> m]
     ELSE IF cachedItem[1].expiresAt < t
          THEN [value |-> <<>>, map |-> MapDelete(m, documentId)]
          ELSE [value |-> <<cachedItem[1].data>>, map |-> m]

removeDocument(m, documentId) == MapDelete(m, documentId)

setDocumentContentIfAbsent(m, cfg, documentId, content, expiration, t) ==
  LET room == IF Len(m) >= cfg.maxSize THEN removeOldestContentItems(m, 1) ELSE m
      expirationTime == NumOrElse(expiration, cfg.defaultExpiration)
  IN IF MapHas(room, documentId) THEN room
     ELSE MapSet(room, documentId, CacheItem(content, t, t + expirationTime))

\* A setDocumentContent that makes room only for a key the map does not hold.
setDocumentContentKeepingPresent(m, cfg, documentId, content, expiration, t) ==
  LET room == IF Len(m) >= cfg.maxSize /\ ~MapHas(m, documentId)
              THEN removeOldestContentItems(m, 1) ELSE m
      expirationTime == NumOrElse(expiration, cfg.defaultExpiration)
  IN MapSet(room, documentId, CacheItem(content, t, t + expirationTime))

setDocumentContent(m, cfg, documentId, content, expiration, t) ==
  LET room == IF Len(m) >= cfg.maxSize THEN removeOldestContentItems(m, 1) ELSE m
      expirationTime == NumOrElse(expiration, cfg.defaultExpiration)
  IN MapSet(room, documentId, CacheItem(content, t, t + expirationTime))

getDocumentContentExpiringEarly(m, documentId, t) ==
  LET cachedItem == MapGet(m, documentId)
  IN IF cachedItem = <<>> THEN [value |-> <<>>, map |-> m]
     ELSE IF cachedItem[1].expiresAt <= t
          THEN [value |-> <<>>, map |-> MapDelete(m, documentId)]
          ELSE [value |-> <<cachedItem[1].data>>, map |-> m]

getDocumentContent(m, documentId, t) ==
  LET cachedItem == MapGet(m, documentId)
  IN IF cachedItem = <<>> THEN [value |-> <<>>, map |-> m]
     ELSE IF cachedItem[1].expiresAt < t
          THEN [value |-> <<>>, map |-> MapDelete(m, documentId)]
          ELSE [value |-> <<cachedItem[1].data>>, map |-> m]

removeDocumentContent(m, documentId) == MapDelete(m, documentId)

\* Both maps after clearCache().
clearCache == [cache |-> <<>>, contentCache |-> <<>>]

\* Array.from(entries()).forEach(([key, item]) => { if (item.expiresAt < now) delete })
RECURSIVE DeleteExpired(_, _, _)
DeleteExpired(m, entries, t) ==
  IF entries = <<>> THEN m
  ELSE DeleteExpired(IF Head(entries)[2].expiresAt < t
                     THEN MapDelete(m, Head(entries)[1]) ELSE m,
                     Tail(entries), t)

cleanupExpiredDocuments(m, c, t) ==
  [cache |-> DeleteExpired(m, m, t), contentCache |-> c]

\* Both maps after cleanupExpiredItems().
cleanupExpiredItems(m, c, t) ==
  [cache |-> DeleteExpired(m, m, t), contentCache |-> DeleteExpired(c, c, t)]


(***************************************************************************)
(* Actions.                                                                *)
(***************************************************************************)
InitDocuments ==
  /\ held = <<>>
  /\ origin = [op |-> "none", content |-> <<>>]
  /\ ipfsPins = {}
  /\ arweaveTxs = <<>>
  /\ ledger = <<>>
  /\ program = <<>>
  /\ now = 0
  /\ call = [op |-> "none", content |-> <<>>, args |-> <<>>]
  /\ trace = <<>>
  /\ result = Return(Undefined)

\* The maps and the awaiting calls of a DocumentCache just constructed.
EmptyCache ==
  /\ cache = <<>>
  /\ contentCache = <<>>
  /\ pending = [slot \in 1..MaxInFlight |-> <<>>]
  /\ lastCached = [documentId \in DocumentIds |-> -1]

\* const documentCache = new DocumentCache()
Init ==
  /\ InitDocuments
  /\ config = DocumentCache(0, 0)
  /\ EmptyCache

\* new DocumentCache({ maxSize })
InitCache(maxSizes) ==
  /\ InitDocuments
  /\ config \in {DocumentCache(maxSize, 0) : maxSize \in maxSizes}
  /\ EmptyCache

\* The clock advances between (not within) operations.
Tick(limit) ==
  /\ now < limit
  /\ now' = now + 1
  /\ UNCHANGED <<held, origin, ipfsPins, arweaveTxs, ledger, program, call, trace, result>>
  /\ UNCHANGED cacheVars

\* The steps that consult each collaborator.  A call is made once per outcome
\* it can observe: a collaborator it never consults counts as reachable.
StepsOf ==
  [ read |-> {"readFile"}, ipfs |-> {"ipfs.put", "ipfs.get"}, arweave |-> {"arweave.put"},
    arweaveGateway |-> {"arweave.gateway.get"}, arweaveApi |-> {"arweave.api.get"},
    ledger |-> {"ledger.getProgram", "ledger.fetchCount", "ledger.rpc"} ]

Observed(env, tr) ==
  \A c \in DOMAIN StepsOf :
    ~env[c] => \E n \in 1..Len(tr) : tr[n].step \in StepsOf[c]

\* The caller keeps the Document an operation created, or goes on with the one
\* it held.
Keep(created) ==
  IF created # <<>> THEN created ELSE held

Origin(created, op, content) ==
  IF created # <<>> THEN [op |-> op, content |-> content] ELSE origin

\* uploadDocument called with one of the requests.
UploadDocumentOf(requests) ==
  \E rq \in requests, read, ipfs, arweave, ledgerUp \in BOOLEAN :
    \E r \in {uploadDocument(rq.file, rq.wallet, rq.metadata, rq.options,
                            Env(read, ipfs, arweave, TRUE, TRUE, ledgerUp))} :
    /\ Observed(Env(read, ipfs, arweave, TRUE, TRUE, ledgerUp), r.trace)
    /\ Len(r.arweaveTxs) <= MaxTxs
    /\ Len(r.ledger) <= MaxLedger
    /\ held' = Keep(IF r.res.kind = "return" THEN <<r.res.value>> ELSE <<>>)
    /\ origin' = Origin(IF r.res.kind = "return" THEN <<r.res.value>> ELSE <<>>,
                        "uploadDocument", rq.file.content)
    /\ ipfsPins' = r.ipfsPins
    /\ arweaveTxs' = r.arweaveTxs
    /\ ledger' = r.ledger
    /\ program' = r.program
    /\ call' = [op |-> "uploadDocument", content |-> rq.file.content, args |-> rq]
    /\ trace' = r.trace
    /\ result' = r.res
    /\ UNCHANGED now
    /\ UNCHANGED cacheVars

UploadDocument == UploadDocumentOf(UploadRequests)

\* The storageInfo objects a client can post: locators and accounts that exist.
StorageInfos ==
  { [EmptyStorageInfo EXCEPT !.ipfsCid = c, !.arweaveTxId = t, !.documentPDA = p] :
      c \in {Undefined} \cup ipfsPins,
      t \in {Undefined} \cup {ArweaveTxId(n) : n \in 1..Len(arweaveTxs)},
      p \in {Undefined} \cup {ledger[k].pda : k \in 1..Len(ledger)} }

PostBodies ==
  { Body(<<"Test Document">>, <<"Test description">>, Undefined, 0, <<>>, {"test"}),
    Body(Undefined, <<"Test description">>, <<"application/pdf">>, 1024,
         <<EmptyStorageInfo>>, {"test"}) }
  \cup { Body(<<"Test Document">>, Undefined, <<"application/pdf">>, 1024, <<si>>, {"test"}) :
           si \in StorageInfos }

\* POST /api/documents with one of the bodies.
HandlePostOf(bodies) ==
  \E body \in bodies :
    \E r \in {handlePost(body)} :
    /\ held' = Keep(IF r.value.success THEN <<r.value.data>> ELSE <<>>)
    /\ origin' = Origin(IF r.value.success THEN <<r.value.data>> ELSE <<>>, "handlePost", <<>>)
    /\ call' = [op |-> "handlePost", content |-> <<>>, args |-> body]
    /\ trace' = <<>>
    /\ result' = r
    /\ UNCHANGED <<ipfsPins, arweaveTxs, ledger, program, now>>
    /\ UNCHANGED cacheVars

HandlePost == HandlePostOf(PostBodies)

\* settles: the outcomes of the promises of calculateFileHash and storeFile
\* that the caller's environment can produce.
ProcessFileUploadOf(settles) ==
  \E rq \in ProcessRequests, isSafe \in BOOLEAN, hashRnd, idRnd \in 0..(RandRange - 1),
     hashOk, storeOk \in settles :
    \E r \in {processFileUpload(rq.fileBuffer, rq.fileName, rq.mimeType, rq.size,
                               rq.uploadedBy, isSafe, hashRnd, idRnd, hashOk, storeOk)} :
    /\ ~isSafe => \E n \in 1..Len(r.trace) : r.trace[n].step = "scan"
    /\ ~hashOk => Ev("hash", FALSE) \in {r.trace[n] : n \in 1..Len(r.trace)}
    /\ ~storeOk => Ev("store", FALSE) \in {r.trace[n] : n \in 1..Len(r.trace)}
    /\ ~r.res.value.success => hashRnd = 0 /\ idRnd = 0
    /\ held' = Keep(r.res.value.document)
    /\ origin' = Origin(r.res.value.document, "processFileUpload", rq.fileBuffer)
    /\ call' = [op |-> "processFileUpload", content |-> rq.fileBuffer, args |-> rq]
    /\ trace' = r.trace
    /\ result' = r.res
    /\ UNCHANGED <<ipfsPins, arweaveTxs, ledger, program, now>>
    /\ UNCHANGED cacheVars

\* The stand-ins of upload.ts resolve always.
ProcessFileUpload == ProcessFileUploadOf({TRUE})

GeneratePreSignedUploadUrl ==
  \E rq \in ProcessRequests :
    \E r \in {generatePreSignedUploadUrl(rq.fileName, rq.mimeType, rq.size, rq.uploadedBy)} :
    /\ call' = [op |-> "generatePreSignedUploadUrl", content |-> <<>>, args |-> rq]
    /\ trace' = r.trace
    /\ result' = r.res
    /\ UNCHANGED <<held, origin, ipfsPins, arweaveTxs, ledger, program, now>>
    /\ UNCHANGED cacheVars

DownloadDocument ==
  /\ held # <<>>
  /\ \E ipfs, arweaveGateway, arweaveApi \in BOOLEAN :
    \E r \in {downloadDocument(held[1], Env(TRUE, ipfs, TRUE, arweaveGateway, arweaveApi, TRUE))} :
    /\ Observed(Env(TRUE, ipfs, TRUE, arweaveGateway, arweaveApi, TRUE), r.trace)
    /\ call' = [op |-> "downloadDocument", content |-> <<>>,
                 args |-> Env(TRUE, ipfs, TRUE, arweaveGateway, arweaveApi, TRUE)]
    /\ trace' = r.trace
    /\ result' = r.res
    /\ UNCHANGED <<held, origin, ipfsPins, arweaveTxs, ledger, program, now>>
    /\ UNCHANGED cacheVars

UpdateDocumentContent ==
  /\ held # <<>>
  /\ held[1].version < MaxVersion
  /\ \E newContent \in Contents, wallet \in {FullWallet, ArweaveWallet}, ipfs, ledgerUp \in BOOLEAN :
    \E r \in {updateDocumentContent(held[1], newContent, wallet,
                                   Env(TRUE, ipfs, TRUE, TRUE, TRUE, ledgerUp))} :
    /\ Observed(Env(TRUE, ipfs, TRUE, TRUE, TRUE, ledgerUp), r.trace)
    /\ held' = <<r.doc>>
    /\ origin' = Origin(IF r.doc # held[1] THEN <<r.doc>> ELSE <<>>,
                        "updateDocumentContent", newContent)
    /\ ipfsPins' = r.ipfsPins
    /\ ledger' = r.ledger
    /\ program' = r.program
    /\ call' = [op |-> "updateDocumentContent", content |-> newContent, args |-> wallet]
    /\ trace' = r.trace
    /\ result' = r.res
    /\ UNCHANGED <<arweaveTxs, now>>
    /\ UNCHANGED cacheVars

\* The hashes a caller asks the ledger about: those of the model's contents.
DocumentHashes == {createDocumentHash(content) : content \in Contents}

\* validateFile as exported by services/document and by utils/helpers.
ValidateFile ==
  \E file \in ValidatedFiles, from \in {"services/document", "utils/helpers"} :
    \E r \in {IF from = "utils/helpers" THEN helpersValidateFile(file) ELSE validateFile(file)} :
    /\ call' = [op |-> "validateFile", content |-> <<>>, args |-> [file |-> file, from |-> from]]
    /\ trace' = <<>>
    /\ result' = Return(r)
    /\ UNCHANGED <<held, origin, ipfsPins, arweaveTxs, ledger, program, now>>
    /\ UNCHANGED cacheVars

VerifyDocumentOwnership ==
  \E documentHash \in DocumentHashes :
    \E r \in {verifyDocumentOwnership("connection", documentHash)} :
    /\ call' = [op |-> "verifyDocumentOwnership", content |-> <<>>, args |-> documentHash]
    /\ trace' = <<>>
    /\ result' = r
    /\ UNCHANGED <<held, origin, ipfsPins, arweaveTxs, ledger, program, now>>
    /\ UNCHANGED cacheVars

(***************************************************************************)
(* Actions of the document cache.                                          *)
(***************************************************************************)
\* What a fetcher for an id resolves with: the Document, or the content, of
\* that id as the backend holds it at the time.
FetchedDocument(documentId, version) == [id |-> documentId, version |-> version]

FetchedContent(documentId, version) == <<documentId[1], version>>

CacheCall(op, args) == [op |-> op, content |-> <<>>, args |-> args]

\* The result of an async function that awaits.
Awaiting == [kind |-> "await", value |-> Undefined]

\* expiresAt of the entry a set with this expiration writes now.
ExpiresAt(expiration) == now + NumOrElse(expiration, config.defaultExpiration)

SetDocument(ids, versions, expirations) ==
  \E documentId \in ids, version \in versions, expiration \in expirations :
    /\ cache' = setDocument(cache, config, documentId,
                            FetchedDocument(documentId, version), expiration, now)
    /\ call' = CacheCall("setDocument",
                         [ documentId |-> documentId, expiration |-> expiration,
                           data |-> FetchedDocument(documentId, version) ])
    /\ result' = Return(Undefined)
    /\ trace' = <<>>
    /\ UNCHANGED <<config, contentCache, pending, lastCached, now>>
    /\ UNCHANGED documentVars

GetDocument(ids) ==
  \E documentId \in ids :
    \E r \in {getDocument(cache, documentId, now)} :
    /\ cache' = r.map
    /\ call' = CacheCall("getDocument", [documentId |-> documentId])
    /\ result' = Return(r.value)
    /\ trace' = <<>>
    /\ UNCHANGED <<config, contentCache, pending, lastCached, now>>
    /\ UNCHANGED documentVars

RemoveDocument(ids) ==
  \E documentId \in ids :
    /\ cache' = removeDocument(cache, documentId)
    /\ call' = CacheCall("removeDocument", [documentId |-> documentId])
    /\ result' = Return(Undefined)
    /\ trace' = <<>>
    /\ UNCHANGED <<config, contentCache, pending, lastCached, now>>
    /\ UNCHANGED documentVars

SetDocumentContent(ids, versions, expirations) ==
  \E documentId \in ids, version \in versions, expiration \in expirations :
    /\ contentCache' = setDocumentContent(contentCache, config, documentId,
                                          FetchedContent(documentId, version),
                                          expiration, now)
    /\ lastCached' = [lastCached EXCEPT ![documentId] = ExpiresAt(expiration)]
    /\ call' = CacheCall("setDocumentContent",
                         [ documentId |-> documentId, expiration |-> expiration,
                           data |-> FetchedContent(documentId, version) ])
    /\ result' = Return(Undefined)
    /\ trace' = <<>>
    /\ UNCHANGED <<config, cache, pending, now>>
    /\ UNCHANGED documentVars

GetDocumentContent(ids) ==
  \E documentId \in ids :
    \E r \in {getDocumentContent(contentCache, documentId, now)} :
    /\ contentCache' = r.map
    /\ call' = CacheCall("getDocumentContent", [documentId |-> documentId])
    /\ result' = Return(r.value)
    /\ trace' = <<>>
    /\ UNCHANGED <<config, cache, pending, lastCached, now>>
    /\ UNCHANGED documentVars

RemoveDocumentContent(ids) ==
  \E documentId \in ids :
    /\ contentCache' = removeDocumentContent(contentCache, documentId)
    /\ call' = CacheCall("removeDocumentContent", [documentId |-> documentId])
    /\ result' = Return(Undefined)
    /\ trace' = <<>>
    /\ UNCHANGED <<config, cache, pending, lastCached, now>>
    /\ UNCHANGED documentVars

ClearCache ==
  /\ cache' = clearCache.cache
  /\ contentCache' = clearCache.contentCache
  /\ call' = CacheCall("clearCache", <<>>)
  /\ result' = Return(Undefined)
  /\ trace' = <<>>
  /\ UNCHANGED <<config, pending, lastCached, now>>
  /\ UNCHANGED documentVars

\* The callback of the interval timer the constructor starts.
CleanupExpiredItems ==
  \E r \in {cleanupExpiredItems(cache, contentCache, now)} :
    /\ cache' = r.cache
    /\ contentCache' = r.contentCache
    /\ call' = CacheCall("cleanupExpiredItems", <<>>)
    /\ result' = Return(Undefined)
    /\ trace' = <<>>
    /\ UNCHANGED <<config, pending, lastCached, now>>
    /\ UNCHANGED documentVars

\* An async call takes the first free call slot.
FreeSlot(slot) ==
  /\ pending[slot] = <<>>
  /\ \A other \in 1..MaxInFlight : other < slot => pending[other] # <<>>

Await(fn, documentId, options) ==
  <<[fn |-> fn, documentId |-> documentId, options |-> options]>>

GetterCall(fn, documentId, options, fetcher) ==
  CacheCall(fn, [documentId |-> documentId, options |-> options, fetcher |-> fetcher])

\* getDocumentWithCache up to its return or its await of fetcher().
GetDocumentWithCache(ids, skips, expirations) ==
  \E slot \in 1..MaxInFlight, documentId \in ids,
     skipCache \in skips, expiration \in expirations :
    \E options \in {[skipCache |-> skipCache, expiration |-> expiration]},
       cachedDocument \in {getDocument(cache, documentId, now)} :
    /\ FreeSlot(slot)
    /\ IF skipCache
       THEN /\ pending' = [pending EXCEPT
                             ![slot] = Await("getDocumentWithCache", documentId, options)]
            /\ call' = GetterCall("getDocumentWithCache", documentId, options, "invoked")
            /\ result' = Awaiting
            /\ UNCHANGED cache
       ELSE IF cachedDocument.value # <<>>
       THEN /\ call' = GetterCall("getDocumentWithCache", documentId, options, "none")
            /\ result' = Return(cachedDocument.value[1])
            /\ cache' = cachedDocument.map
            /\ UNCHANGED pending
       ELSE /\ pending' = [pending EXCEPT
                             ![slot] = Await("getDocumentWithCache", documentId, options)]
            /\ call' = GetterCall("getDocumentWithCache", documentId, options, "invoked")
            /\ result' = Awaiting
            /\ cache' = cachedDocument.map
    /\ trace' = <<>>
    /\ UNCHANGED <<config, contentCache, lastCached, now>>
    /\ UNCHANGED documentVars

\* getDocumentWithCache from the point its fetcher settles.
ResumeGetDocumentWithCache(versions) ==
  \E slot \in 1..MaxInFlight, resolves \in BOOLEAN, version \in versions :
    /\ pending[slot] # <<>>
    /\ pending[slot][1].fn = "getDocumentWithCache"
    /\ \E awaited \in {pending[slot][1]} :
       \E document \in {FetchedDocument(awaited.documentId, version)} :
       IF resolves
       THEN /\ cache' = setDocument(cache, config, awaited.documentId, document,
                                    awaited.options.expiration, now)
            /\ call' = GetterCall("getDocumentWithCache", awaited.documentId,
                                  awaited.options, "resolved")
            /\ result' = Return(document)
       ELSE /\ \A other \in versions : version <= other
            /\ call' = GetterCall("getDocumentWithCache", awaited.documentId,
                                  awaited.options, "rejected")
            /\ result' = Throw(<<"fetch failed">>)
            /\ UNCHANGED cache
    /\ pending' = [pending EXCEPT ![slot] = <<>>]
    /\ trace' = <<>>
    /\ UNCHANGED <<config, contentCache, lastCached, now>>
    /\ UNCHANGED documentVars

\* getDocumentContentWithCache up to its return or its await of fetcher().
GetDocumentContentWithCache(ids, skips, expirations) ==
  \E slot \in 1..MaxInFlight, documentId \in ids,
     skipCache \in skips, expiration \in expirations :
    \E options \in {[skipCache |-> skipCache, expiration |-> expiration]},
       cachedContent \in {getDocumentContent(contentCache, documentId, now)} :
    /\ FreeSlot(slot)
    /\ IF skipCache
       THEN /\ pending' = [pending EXCEPT
                             ![slot] = Await("getDocumentContentWithCache", documentId, options)]
            /\ call' = GetterCall("getDocumentContentWithCache", documentId, options, "invoked")
            /\ result' = Awaiting
            /\ UNCHANGED contentCache
       ELSE IF cachedContent.value # <<>>
       THEN /\ call' = GetterCall("getDocumentContentWithCache", documentId, options, "none")
            /\ result' = Return(cachedContent.value[1])
            /\ contentCache' = cachedContent.map
            /\ UNCHANGED pending
       ELSE /\ pending' = [pending EXCEPT
                             ![slot] = Await("getDocumentContentWithCache", documentId, options)]
            /\ call' = GetterCall("getDocumentContentWithCache", documentId, options, "invoked")
            /\ result' = Awaiting
            /\ contentCache' = cachedContent.map
    /\ trace' = <<>>
    /\ UNCHANGED <<config, cache, lastCached, now>>
    /\ UNCHANGED documentVars

\* getDocumentContentWithCache from the point its fetcher settles.
ResumeGetDocumentContentWithCache(versions) ==
  \E slot \in 1..MaxInFlight, resolves \in BOOLEAN, version \in versions :
    /\ pending[slot] # <<>>
    /\ pending[slot][1].fn = "getDocumentContentWithCache"
    /\ \E awaited \in {pending[slot][1]} :
       \E content \in {FetchedContent(awaited.documentId, version)} :
       IF resolves
       THEN /\ contentCache' = setDocumentContent(contentCache, config, awaited.documentId,
                                                  content, awaited.options.expiration, now)
            /\ lastCached' = [lastCached EXCEPT
                                ![awaited.documentId] = ExpiresAt(awaited.options.expiration)]
            /\ call' = GetterCall("getDocumentContentWithCache", awaited.documentId,
                                  awaited.options, "resolved")
            /\ result' = Return(content)
       ELSE /\ \A other \in versions : version <= other
            /\ call' = GetterCall("getDocumentContentWithCache", awaited.documentId,
                                  awaited.options, "rejected")
            /\ result' = Throw(<<"fetch failed">>)
            /\ UNCHANGED <<contentCache, lastCached>>
    /\ pending' = [pending EXCEPT ![slot] = <<>>]
    /\ trace' = <<>>
    /\ UNCHANGED <<config, cache, now>>
    /\ UNCHANGED documentVars


\* PUT /api/documents/[id] on the Document the caller holds: handler passes
\* the record it found by id to handlePut, which writes into it.
HandlePut ==
  /\ held # <<>>
  /\ \E req \in PutRequests :
    \E r \in {handlePut(req, held[1])} :
    /\ held' = <<r.doc>>
    /\ call' = [op |-> "handlePut", content |-> <<>>, args |-> req]
    /\ trace' = <<>>
    /\ result' = r.res
    /\ UNCHANGED <<origin, ipfsPins, arweaveTxs, ledger, program, now>>
    /\ UNCHANGED cacheVars

\* The wallet object `{}` that the ledger's getDocument passes to getProgram.
EmptyWallet == [publicKey |-> Undefined, arweaveJwk |-> FALSE]

OtherWallet == [publicKey |-> <<"W2">>, arweaveJwk |-> FALSE]

MAINNET_ENDPOINT == <<"https://api.mainnet-beta.solana.com">>

\* What Program.fetchIdl settles with: the IDL, null, or a rejection.
FetchIdlOutcomes == {"idl", "null", "rejected"}

LedgerCall(op, args) == [op |-> op, content |-> <<>>, args |-> args]

\* getProgram up to its return of the cached client or its await of
\* Program.fetchIdl.
GetProgram(connections, wallets) ==
  \E slot \in 1..MaxInFlight, connection \in connections, wallet \in wallets :
    /\ FreeSlot(slot)
    /\ IF program # <<>>
       THEN /\ call' = LedgerCall("getProgram", [ connection |-> connection,
                                                  wallet |-> wallet, fetchIdl |-> "none" ])
            /\ result' = Return(program[1])
            /\ UNCHANGED pending
       ELSE /\ pending' = [pending EXCEPT
                             ![slot] = << [ fn |-> "getProgram", connection |-> connection,
                                            wallet |-> wallet ] >>]
            /\ call' = LedgerCall("getProgram", [ connection |-> connection,
                                                  wallet |-> wallet, fetchIdl |-> "invoked" ])
            /\ result' = Awaiting
    /\ trace' = <<>>
    /\ UNCHANGED <<held, origin, ipfsPins, arweaveTxs, ledger, program, now>>
    /\ UNCHANGED <<config, cache, contentCache, lastCached>>

\* getProgram from the point Program.fetchIdl settles.
ResumeGetProgram ==
  \E slot \in 1..MaxInFlight, fetched \in FetchIdlOutcomes :
    /\ pending[slot] # <<>>
    /\ pending[slot][1].fn = "getProgram"
    /\ \E awaited \in {pending[slot][1]} :
       \E r \in {programFetched(awaited.connection, awaited.wallet, fetched)} :
       /\ program' = r.program
       /\ result' = r.res
       /\ call' = LedgerCall("getProgram", [ connection |-> awaited.connection,
                                             wallet |-> awaited.wallet, fetchIdl |-> fetched ])
    /\ pending' = [pending EXCEPT ![slot] = <<>>]
    /\ trace' = <<Ev("ledger.getProgram", fetched = "idl")>>
    /\ UNCHANGED <<held, origin, ipfsPins, arweaveTxs, ledger, now>>
    /\ UNCHANGED <<config, cache, contentCache, lastCached>>

\* registerDocument up to the await of its transaction: the count is read and
\* the address derived.
RegisterDocument(wallets, hashes) ==
  \E slot \in 1..MaxInFlight, wallet \in wallets, documentHash \in hashes,
     ledgerUp \in BOOLEAN :
    \E r \in {readDocumentAddress(wallet, Env(TRUE, TRUE, TRUE, TRUE, TRUE, ledgerUp))} :
    /\ FreeSlot(slot)
    /\ Observed(Env(TRUE, TRUE, TRUE, TRUE, TRUE, ledgerUp), r.trace)
    /\ program' = r.program
    /\ IF r.res.kind = "throw"
       THEN /\ result' = r.res
            /\ UNCHANGED pending
       ELSE /\ pending' = [pending EXCEPT
                             ![slot] = << [ fn |-> "registerDocument", wallet |-> wallet,
                                            documentPDA |-> r.res.value,
                                            documentHash |-> documentHash ] >>]
            /\ result' = Awaiting
    /\ call' = LedgerCall("registerDocument",
                          [ wallet |-> wallet, documentHash |-> documentHash,
                            documentPDA |-> IF r.res.kind = "throw" THEN Undefined
                                            ELSE r.res.value,
                            rpc |-> IF r.res.kind = "throw" THEN "none" ELSE "invoked" ])
    /\ trace' = r.trace
    /\ UNCHANGED <<held, origin, ipfsPins, arweaveTxs, ledger, now>>
    /\ UNCHANGED <<config, cache, contentCache, lastCached>>

\* registerDocument from the point its transaction settles: the signature
\* returned, or the error logged and rethrown.
ResumeRegisterDocument ==
  \E slot \in 1..MaxInFlight, ledgerUp \in BOOLEAN :
    /\ pending[slot] # <<>>
    /\ pending[slot][1].fn = "registerDocument"
    /\ \E awaited \in {pending[slot][1]} :
       \E r \in {submitRegistration(awaited.wallet, awaited.documentPDA, awaited.documentHash,
                                    <<"Title">>, <<"text/plain">>,
                                    Env(TRUE, TRUE, TRUE, TRUE, TRUE, ledgerUp))} :
       /\ Len(r.ledger) <= MaxAccounts
       /\ ledger' = r.ledger
       /\ result' = r.res
       /\ trace' = r.trace
       /\ call' = LedgerCall("registerDocument",
                             [ wallet |-> awaited.wallet, documentHash |-> awaited.documentHash,
                               documentPDA |-> awaited.documentPDA,
                               rpc |-> IF r.res.kind = "return" THEN "resolved"
                                       ELSE "rejected" ])
    /\ pending' = [pending EXCEPT ![slot] = <<>>]
    /\ UNCHANGED <<held, origin, ipfsPins, arweaveTxs, program, now>>
    /\ UNCHANGED <<config, cache, contentCache, lastCached>>

Next ==
  \/ Tick(MaxAge)
  \/ HandlePut
  \/ UploadDocument
  \/ HandlePost
  \/ ProcessFileUpload
  \/ GeneratePreSignedUploadUrl
  \/ DownloadDocument
  \/ UpdateDocumentContent
  \/ VerifyDocumentOwnership
  \/ ValidateFile
  \/ SetDocument(DocumentIds, Versions, Expirations)
  \/ GetDocument(DocumentIds)
  \/ RemoveDocument(DocumentIds)
  \/ SetDocumentContent(DocumentIds, Versions, Expirations)
  \/ GetDocumentContent(DocumentIds)
  \/ RemoveDocumentContent(DocumentIds)
  \/ ClearCache
  \/ CleanupExpiredItems
  \/ GetDocumentWithCache(DocumentIds, BOOLEAN, Expirations)
  \/ ResumeGetDocumentWithCache(Versions)
  \/ GetDocumentContentWithCache(DocumentIds, BOOLEAN, Expirations)
  \/ ResumeGetDocumentContentWithCache(Versions)
  \/ GetProgram({DEVNET_ENDPOINT, MAINNET_ENDPOINT}, {FullWallet, OtherWallet, EmptyWallet})
  \/ ResumeGetProgram
  \/ RegisterDocument({FullWallet}, DocumentHashes)
  \/ ResumeRegisterDocument

Spec == Init /\ [][Next]_vars

\* The functions that validate their input before they act.
NextUpload ==
  \/ UploadDocument
  \/ ProcessFileUpload
  \/ GeneratePreSignedUploadUrl

SpecUpload == Init /\ [][NextUpload]_vars

\* The operations that create or change Document records.
NextRecords ==
  \/ UploadDocument
  \/ HandlePost
  \/ ProcessFileUpload
  \/ UpdateDocumentContent

SpecRecords == Init /\ [][NextRecords]_vars

\* The operations that give a new Document its id, as time passes.
NextIds ==
  \/ Tick(MaxTime)
  \/ UploadDocument
  \/ HandlePost
  \/ ProcessFileUpload

SpecIds == Init /\ [][NextIds]_vars

\* Downloads of the records that uploads and posts leave.
NextDownload ==
  \/ UploadDocument
  \/ HandlePost
  \/ DownloadDocument

SpecDownload == Init /\ [][NextDownload]_vars

\* A Document that is uploaded, then updated in content and in metadata.
NextMetadata ==
  \/ UploadDocument
  \/ UpdateDocumentContent
  \/ HandlePut

SpecMetadata == Init /\ [][NextMetadata]_vars

\* Hashes registered by uploads, and asked about.
NextVerify ==
  \/ UploadDocument
  \/ VerifyDocumentOwnership

SpecVerify == Init /\ [][NextVerify]_vars

\* Files validated on their own and as the first step of an upload.
NextValidate ==
  \/ ValidateFile
  \/ UploadDocument

SpecValidate == Init /\ [][NextValidate]_vars

\* A Document pinned on IPFS and registered on the ledger, posted with the
\* locators and the account that exist, and updated in content as time passes.
RegisteredUploads ==
  { UploadRequest(TxtFile, FullWallet, SomeMetadata, Options(<<"ipfs">>, "true")) }

CompleteBodies ==
  { Body(<<"Test Document">>, Undefined, <<"application/pdf">>, 1024, <<si>>, {"test"}) :
      si \in StorageInfos }

NextRevise ==
  \/ Tick(MaxTime)
  \/ UploadDocumentOf(RegisteredUploads)
  \/ HandlePostOf(CompleteBodies)
  \/ UpdateDocumentContent

SpecRevise == Init /\ [][NextRevise]_vars

\* Documents stored on IPFS or on Arweave, or posted with both locators, that
\* are updated in content and downloaded again.
StoredUploads ==
  { UploadRequest(TxtFile, FullWallet, SomeMetadata, Options(<<"ipfs">>, "true")),
    UploadRequest(PdfFile, FullWallet, SomeMetadata, Options(<<"arweave">>, "undefined")) }

NextRedownload ==
  \/ UploadDocumentOf(StoredUploads)
  \/ HandlePostOf(CompleteBodies)
  \/ UpdateDocumentContent
  \/ DownloadDocument

SpecRedownload == Init /\ [][NextRedownload]_vars

\* Files processed, as time passes, by a service whose hashing and storage
\* steps may reject.
NextProcess ==
  \/ Tick(MaxTime)
  \/ ProcessFileUploadOf(BOOLEAN)

SpecProcess == Init /\ [][NextProcess]_vars

\* Calls of getProgram through two connections and with three wallets, each
\* settling when Program.fetchIdl does.
NextProgram ==
  \/ GetProgram({DEVNET_ENDPOINT, MAINNET_ENDPOINT}, {FullWallet, OtherWallet, EmptyWallet})
  \/ ResumeGetProgram

SpecProgram == Init /\ [][NextProgram]_vars

\* Registrations by one wallet, each settling when its transaction does.
NextRegister ==
  \/ RegisterDocument({FullWallet}, DocumentHashes)
  \/ ResumeRegisterDocument

SpecRegister == Init /\ [][NextRegister]_vars

\* The methods of a DocumentCache, the sweep of its timer, and the clock: two
\* documents in a cache of capacity 1 or 2.
TwoIds == { <<"doc1">>, <<"doc2">> }

NextCache ==
  \/ Tick(MaxAge)
  \/ SetDocument(TwoIds, Versions, {1})
  \/ GetDocument(TwoIds)
  \/ RemoveDocument(TwoIds)
  \/ SetDocumentContent(TwoIds, Versions, {1})
  \/ GetDocumentContent(TwoIds)
  \/ RemoveDocumentContent(TwoIds)
  \/ ClearCache
  \/ CleanupExpiredItems

SpecCache == InitCache({1, 2}) /\ [][NextCache]_vars

\* Documents and content set into a cache of capacity 1 or 2, as time passes.
NextFill ==
  \/ Tick(MaxAge)
  \/ SetDocument(DocumentIds, {1}, {1})
  \/ SetDocumentContent(DocumentIds, {1}, {1})

SpecFill == InitCache({1, 2}) /\ [][NextFill]_vars

\* Entries set and left unread while the interval timer of the constructor
\* keeps firing: setInterval runs the sweep again and again.
NextSweep ==
  \/ Tick(MaxAge)
  \/ SetDocument(TwoIds, {1}, {1})
  \/ SetDocumentContent(TwoIds, {1}, {1})
  \/ CleanupExpiredItems

SpecSweep == InitCache({1, 2}) /\ [][NextSweep]_vars /\ WF_vars(CleanupExpiredItems)

\* Overlapping calls of both cached getters, and the sweep between them: the
\* Documents of two ids and the content of one, in a cache of capacity 1 or 2.
NextGetters ==
  \/ Tick(MaxAge)
  \/ GetDocumentWithCache(TwoIds, {FALSE}, {1})
  \/ ResumeGetDocumentWithCache(Versions)
  \/ GetDocumentContentWithCache({<<"doc1">>}, {FALSE}, {1})
  \/ ResumeGetDocumentContentWithCache(Versions)
  \/ CleanupExpiredItems

SpecGetters == InitCache({1, 2}) /\ [][NextGetters]_vars

\* Cached downloads of the content of two documents, as time passes.
NextContent ==
  \/ Tick(MaxAge)
  \/ GetDocumentContentWithCache(TwoIds, BOOLEAN, {1})
  \/ ResumeGetDocumentContentWithCache(Versions)
  \/ CleanupExpiredItems

SpecContent == InitCache({1, 2}) /\ [][NextContent]_vars

(***************************************************************************)
(* Properties of the Document records.                                     *)
(***************************************************************************)
HasLocator(storageInfo) ==
  Truthy(storageInfo.ipfsCid) \/ Truthy(storageInfo.arweaveTxId)

\* C1: no Document that uploadDocument, processFileUpload, the POST handler
\* or updateDocumentContent has produced is active without an IPFS CID or an
\* Arweave transaction id in its storageInfo.
C1_ActiveHasLocator ==
  (held # <<>> /\ held[1].status = "active") => HasLocator(held[1].storageInfo)

\* The id of the Document an upload call produced from its bytes, if any.
UploadedId(c, r) ==
  IF c.op = "uploadDocument" /\ r.kind = "return" THEN <<r.value.id>>
  ELSE IF c.op = "processFileUpload" /\ r.value.success THEN <<r.value.document[1].id>>
  ELSE <<>>

\* C2: two uploads of the same bytes, one after the other, by uploadDocument
\* or processFileUpload in any combination, give Documents with equal id.
C2_SameContentSameId ==
  [][ ( /\ UploadedId(call, result) # <<>>
        /\ UploadedId(call', result') # <<>>
        /\ call.content = call'.content )
      => UploadedId(call, result) = UploadedId(call', result') ]_vars

(***************************************************************************)
(* Properties of uploadDocument, processFileUpload and                     *)
(* generatePreSignedUploadUrl.                                             *)
(***************************************************************************)
IsPut(e) == e.step \in {"ipfs.put", "arweave.put"}
IsLedgerStep(e) == e.step \in StepsOf.ledger

Puts == SelectSeq(trace, IsPut)

\* The backend options.preferredStorage names (IPFS when it is not given).
PreferredPut(options) ==
  IF ~Truthy(options.preferredStorage) \/ options.preferredStorage = <<"ipfs">>
  THEN "ipfs.put" ELSE "arweave.put"

HasOnlyLocatorOf(storageInfo, put) ==
  IF put = "ipfs.put"
  THEN Truthy(storageInfo.ipfsCid) /\ ~Truthy(storageInfo.arweaveTxId)
  ELSE ~Truthy(storageInfo.ipfsCid) /\ Truthy(storageInfo.arweaveTxId)

UploadCalled == call.op = "uploadDocument"

\* C4 as the spec states it: an upload whose put failed fails only when the
\* put has failed on every backend (the next backend is tried after a failure).
C4_FailsOnlyWhenEveryPutFailed ==
  (UploadCalled /\ \E n \in 1..Len(Puts) : ~Puts[n].ok)
    => /\ \E n \in 1..Len(Puts) : Puts[n].step = "ipfs.put" /\ ~Puts[n].ok
       /\ \E n \in 1..Len(Puts) : Puts[n].step = "arweave.put" /\ ~Puts[n].ok

\* C4 (amended): uploadDocument puts the content on one backend only, the one
\* options.preferredStorage names (IPFS by default).  When that put fails the
\* upload fails with the backend's error and no other backend is tried; when
\* the upload returns, the record is active and holds that backend's locator
\* and no other.
C4_SinglePreferredBackend ==
  UploadCalled =>
    /\ Len(Puts) <= 1
    /\ \A n \in 1..Len(Puts) : Puts[n].step = PreferredPut(call.args.options)
    /\ (Puts # <<>> /\ ~Puts[1].ok) =>
          /\ result.kind = "throw"
          /\ result.value \in {<<"ipfs: Network Error">>, <<"Failed to upload to Arweave">>}
    /\ result.kind = "return" =>
          /\ Puts = <<Ev(PreferredPut(call.args.options), TRUE)>>
          /\ result.value.status = "active"
          /\ HasOnlyLocatorOf(result.value.storageInfo, PreferredPut(call.args.options))

\* The preferred backend (Arweave) is down, IPFS is not asked, the upload fails.
C4_Witness ==
  /\ UploadCalled
  /\ call.args.options.preferredStorage = <<"arweave">>
  /\ Puts = <<Ev("arweave.put", FALSE)>>
  /\ result.kind = "throw"
  /\ result.value = <<"Failed to upload to Arweave">>

RegistrationRequested == call.args.options.registerOnChain # "false"

\* The content was stored and the registration that followed it failed.
RegistrationFailedAfterStorage ==
  /\ UploadCalled
  /\ \E n \in 1..Len(Puts) : Puts[n].ok
  /\ RegistrationRequested
  /\ \/ ~Truthy(call.args.wallet.publicKey)
     \/ \E n \in 1..Len(trace) : IsLedgerStep(trace[n]) /\ ~trace[n].ok

\* C5 as the spec states it: when the content was stored and the requested
\* ledger registration fails, the upload still returns an active record whose
\* solanaSignature is unset.
C5_RegistrationFailureTolerated ==
  RegistrationFailedAfterStorage =>
    /\ result.kind = "return"
    /\ result.value.status = "active"
    /\ result.value.storageInfo.solanaSignature = Undefined

\* C5 (amended): when the content was stored and the requested ledger
\* registration fails, uploadDocument rejects with the registration error and
\* returns no record, while the content stays on the backend; a returned
\* record has solanaSignature unset exactly when registerOnChain was false.
C5_RegistrationFailureRejects ==
  /\ RegistrationFailedAfterStorage =>
        /\ result.kind = "throw"
        /\ result.value \in { <<"Wallet not connected">>, <<"ledger: failed to load program">>,
                              <<"ledger: request failed">> }
        /\ \/ IpfsHash(call.content) \in ipfsPins
           \/ \E n \in 1..Len(arweaveTxs) : arweaveTxs[n] = call.content
  /\ (UploadCalled /\ result.kind = "return") =>
        (result.value.storageInfo.solanaSignature = Undefined <=> ~RegistrationRequested)

\* The put succeeded, the ledger program could not be loaded, the upload threw.
C5_Witness ==
  /\ RegistrationFailedAfterStorage
  /\ trace[Len(trace)] = Ev("ledger.getProgram", FALSE)
  /\ result.kind = "throw"

UploadValidationFails ==
  UploadCalled /\ ~validateFile(call.args.file).valid

ProcessValidationFails ==
  /\ call.op \in {"processFileUpload", "generatePreSignedUploadUrl"}
  /\ \/ validateFileSize(call.args.size, UPLOAD_MAX_FILE_SIZE) # <<>>
     \/ validateFileType(call.args.fileName, call.args.mimeType) # <<>>

\* C6: when the size or the type of the input fails validation, uploadDocument,
\* processFileUpload and generatePreSignedUploadUrl fail with the validation
\* error and have started no read, put, ledger call, scan, hash or store.
C6_ValidationPrecedesSteps ==
  /\ UploadValidationFails =>
        /\ result.kind = "throw"
        /\ result.value = validateFile(call.args.file).message
        /\ trace = <<>>
  /\ (ProcessValidationFails /\ call.op = "processFileUpload") =>
        /\ ~result.value.success
        /\ result.value.document = <<>>
        /\ result.value.error[1].type \in {"FILE_TOO_LARGE", "INVALID_FILE_TYPE"}
        /\ trace = <<>>
  /\ (ProcessValidationFails /\ call.op = "generatePreSignedUploadUrl") =>
        /\ result.kind = "throw"
        /\ result.value.type \in {"FILE_TOO_LARGE", "INVALID_FILE_TYPE"}
        /\ trace = <<>>

\* processFileUpload has refused a file of a type that is not allowed, after
\* earlier uploads had stored content.
C6_Witness ==
  /\ ProcessValidationFails
  /\ call.op = "processFileUpload"
  /\ result.value.error[1].type = "INVALID_FILE_TYPE"
  /\ trace = <<>>
  /\ ipfsPins # {}

(***************************************************************************)
(* Properties of downloadDocument.                                         *)
(***************************************************************************)
DownloadCalled == call.op = "downloadDocument"

IsArweaveGet(e) == e.step \in {"arweave.gateway.get", "arweave.api.get"}

TwoLocators(storageInfo) ==
  Truthy(storageInfo.ipfsCid) /\ Truthy(storageInfo.arweaveTxId)

\* What a get on each backend does under the conditions of the call.
IpfsGetSucceeds(storageInfo, env) ==
  env.ipfs /\ storageInfo.ipfsCid \in ipfsPins

ArweaveGetSucceeds(storageInfo, env) ==
  ArweaveHas(storageInfo.arweaveTxId) /\ (env.arweaveGateway \/ env.arweaveApi)

LocatorReachable(storageInfo, env) ==
  \/ Truthy(storageInfo.ipfsCid) /\ IpfsGetSucceeds(storageInfo, env)
  \/ Truthy(storageInfo.arweaveTxId) /\ ArweaveGetSucceeds(storageInfo, env)

\* The record uploadDocument returned is downloaded while the backend that
\* holds its locator is reachable.
UploadedThenDownloaded ==
  /\ origin.op = "uploadDocument"
  /\ DownloadCalled
  /\ LocatorReachable(held[1].storageInfo, call.args)

\* C3 as the spec states it: upload then download of the returned record
\* yields the uploaded bytes together with verified = true.
C3_RoundTripVerified ==
  UploadedThenDownloaded =>
    /\ result.kind = "return"
    /\ result.value = origin.content
    /\ VerifiedFlag(result.value) = <<"true">>

\* C3 (amended): upload then download of the returned record yields exactly
\* the uploaded bytes whenever the backend holding the record's locator is
\* reachable; the result is the bare buffer.
C3_RoundTripBytes ==
  UploadedThenDownloaded =>
    /\ result.kind = "return"
    /\ result.value = origin.content

\* An Arweave upload read back through the client after the gateway failed.
C3_Witness ==
  /\ UploadedThenDownloaded
  /\ trace = <<Ev("arweave.gateway.get", FALSE), Ev("arweave.api.get", TRUE)>>
  /\ result.kind = "return"
  /\ result.value = origin.content

FirstFailsSecondSucceeds ==
  /\ DownloadCalled
  /\ TwoLocators(held[1].storageInfo)
  /\ ~IpfsGetSucceeds(held[1].storageInfo, call.args)
  /\ ArweaveGetSucceeds(held[1].storageInfo, call.args)

\* C7: for a record with an IPFS CID and an Arweave transaction id, when the
\* IPFS get fails and the Arweave get succeeds, downloadDocument returns the
\* Arweave bytes as its normal result.
C7_DownloadFallsBack ==
  FirstFailsSecondSucceeds =>
    /\ result.kind = "return"
    /\ result.value = arweaveTxs[held[1].storageInfo.arweaveTxId[2]]

\* The fallback returned bytes that differ from those the CID addresses.
C7_Witness ==
  /\ FirstFailsSecondSucceeds
  /\ result.kind = "return"
  /\ result.value # held[1].storageInfo.ipfsCid[2]

GetRank(step) ==
  CASE step = "ipfs.get" -> 1
    [] step = "arweave.gateway.get" -> 2
    [] step = "arweave.api.get" -> 3
    [] OTHER -> 0

AllGetsFailed ==
  /\ DownloadCalled
  /\ trace # <<>>
  /\ \A n \in 1..Len(trace) : ~trace[n].ok

\* C9: when every get fails, downloadDocument fails with the one error that
\* says so, whether the record has one locator or several, and it has asked
\* each backend at most once.
C9_AllBackendsFailed ==
  AllGetsFailed =>
    /\ result.kind = "throw"
    /\ result.value = <<"Failed to download document from any storage source">>
    /\ Cardinality({n \in 1..Len(trace) : trace[n].step = "ipfs.get"}) <= 1
    /\ Cardinality({n \in 1..Len(trace) : IsArweaveGet(trace[n])}) <= 1

FetchedBytes ==
  DownloadCalled /\ \E n \in 1..Len(trace) : trace[n].ok

HashMatches ==
  createDocumentHash(result.value) = held[1].id

LedgerAgrees ==
  \/ ~Truthy(held[1].storageInfo.solanaSignature)
  \/ \E k \in 1..Len(ledger) : ledger[k].documentHash = createDocumentHash(result.value)

\* C10 as the spec states it: a download that fetched bytes returns them with
\* verified = true only if their hash equals the record's id and the ledger
\* agrees, and with verified = false otherwise.
C10_VerifiedOnlyIfHashMatches ==
  FetchedBytes =>
    /\ result.kind = "return"
    /\ VerifiedFlag(result.value) = <<"true">> => (HashMatches /\ LedgerAgrees)
    /\ ~(HashMatches /\ LedgerAgrees) => VerifiedFlag(result.value) = <<"false">>

\* The bytes the successful get of the last download read.
FetchedFrom(storageInfo) ==
  IF trace[Len(trace)].step = "ipfs.get"
  THEN storageInfo.ipfsCid[2]
  ELSE arweaveTxs[storageInfo.arweaveTxId[2]]

\* C10 (amended): a download that fetched bytes returns exactly those bytes
\* as a bare buffer, whether or not their hash equals the record's id: it
\* recomputes no hash and makes no ledger call, and the result has no
\* verified flag.
C10_BytesReturnedUnverified ==
  FetchedBytes =>
    /\ result.kind = "return"
    /\ result.value = FetchedFrom(held[1].storageInfo)
    /\ \A n \in 1..Len(trace) : ~IsLedgerStep(trace[n])
    /\ VerifiedFlag(result.value) = Undefined

\* Bytes whose hash is not the record's id came back as a normal result.
C10_Witness ==
  /\ FetchedBytes
  /\ result.kind = "return"
  /\ ~HashMatches

(***************************************************************************)
(* C11: what the content cache holds.                                      *)
(***************************************************************************)
Entries(m) == {m[n] : n \in 1..Len(m)}

\* The step is a call of the operation (not the clock's).
Called(op) == now' = now /\ call'.op = op

\* The step resumes a cached content download whose fetcher settled.
ContentFetchSettles ==
  /\ Called("getDocumentContentWithCache")
  /\ pending' # pending
  /\ call'.args.fetcher \in {"resolved", "rejected"}

\* C11 as the spec states it: the content cache holds only bytes of a download
\* whose verified result was true.
C11_CachedOnlyIfVerified ==
  \A e \in Entries(contentCache) : VerifiedFlag(e[2].data) = <<"true">>

\* Every entry holds, under its id, content a fetcher for that id resolved with.
ContentOfItsId ==
  \A e \in Entries(contentCache) :
    \E version \in Versions : e[2].data = FetchedContent(e[1], version)

\* C11 (amended): the content cache holds under an id only bytes that a fetcher
\* for that id resolved with; whatever a fetcher resolves with is cached under
\* the id asked for, with no verification and no verified flag, and a fetcher
\* that rejects caches nothing.
C11_EveryFetchedContentCached ==
  /\ []ContentOfItsId
  /\ [][ContentFetchSettles =>
         IF call'.args.fetcher = "resolved"
         THEN /\ result'.kind = "return"
              /\ MapGet(contentCache', call'.args.documentId) # <<>>
              /\ MapGet(contentCache', call'.args.documentId)[1].data = result'.value
              /\ MapGet(contentCache', call'.args.documentId)[1].timestamp = now
              /\ VerifiedFlag(result'.value) = Undefined
         ELSE /\ result'.kind = "throw"
              /\ contentCache' = contentCache]_vars

\* A skipCache download replaced the content cached for the id by what its
\* fetcher resolved with, unverified.
C11_Witness ==
  /\ call.op = "getDocumentContentWithCache"
  /\ call.args.fetcher = "resolved"
  /\ call.args.options.skipCache
  /\ result.kind = "return"
  /\ MapGet(contentCache, call.args.documentId) # <<>>
  /\ MapGet(contentCache, call.args.documentId)[1].data = result.value
  /\ MapGet(contentCache, call.args.documentId)[1].timestamp > 0
  /\ VerifiedFlag(result.value) = Undefined

(***************************************************************************)
(* C12: cached downloads until the entry's expiry.                         *)
(***************************************************************************)
\* The step calls a cached content download that does not skip the cache.
ContentDownloadStarts ==
  /\ Called("getDocumentContentWithCache")
  /\ call'.args.fetcher \in {"none", "invoked"}
  /\ ~call'.args.options.skipCache

\* C12 as the spec states it: once content was cached for an id, every cached
\* download of the id up to the expiry of that entry returns without invoking
\* the fetcher, and one after the expiry invokes the fetcher.
C12_CachedUntilExpiry ==
  [][(ContentDownloadStarts /\ lastCached[call'.args.documentId] # -1) =>
       IF now <= lastCached[call'.args.documentId]
       THEN call'.args.fetcher = "none" /\ result'.kind = "return"
       ELSE call'.args.fetcher = "invoked"]_vars

\* C12 (amended): a cached download (skipCache not set) returns the cached bytes
\* without invoking the fetcher exactly while the id's entry is still in the
\* content cache and now <= expiresAt; when the entry is gone (evicted at
\* capacity, swept) or expired it invokes the fetcher, and the result the
\* fetcher resolves with is cached under a new expiry.
C12_CachedWhileHeld ==
  /\ [][ContentDownloadStarts =>
         LET item == MapGet(contentCache, call'.args.documentId)
         IN IF item # <<>> /\ now <= item[1].expiresAt
            THEN /\ call'.args.fetcher = "none"
                 /\ result' = Return(item[1].data)
                 /\ contentCache' = contentCache
                 /\ pending' = pending
            ELSE /\ call'.args.fetcher = "invoked"
                 /\ result'.kind = "await"
                 /\ pending' # pending
                 /\ MapGet(contentCache', call'.args.documentId) = <<>>]_vars
  /\ [][(ContentFetchSettles /\ call'.args.fetcher = "resolved") =>
         /\ MapGet(contentCache', call'.args.documentId) # <<>>
         /\ MapGet(contentCache', call'.args.documentId)[1] =
              CacheItem(result'.value, now,
                        now + NumOrElse(call'.args.options.expiration,
                                        config.defaultExpiration))]_vars

\* A cached download at the very instant of the entry's expiry returned the
\* cached bytes without a fetch.
C12_Witness ==
  /\ call.op = "getDocumentContentWithCache"
  /\ call.args.fetcher = "none"
  /\ result.kind = "return"
  /\ MapGet(contentCache, call.args.documentId) # <<>>
  /\ MapGet(contentCache, call.args.documentId)[1].expiresAt = now
  /\ MapGet(contentCache, call.args.documentId)[1].data = result.value

(***************************************************************************)
(* C13: eviction at capacity.                                              *)
(***************************************************************************)
Keys(m) == [n \in 1..Len(m) |-> m[n][1]]

\* The entries were inserted under distinct keys one after the other: the
\* order of the Map is the order of their timestamps.
InInsertionOrder(m) ==
  \A i, j \in 1..Len(m) : i < j => m[i][2].timestamp <= m[j][2].timestamp

\* Setting one more key into a full map leaves maxSize entries: all but the
\* first-inserted one, then the new one.
EvictsFirstInserted(m, after, key) ==
  (Len(m) = config.maxSize /\ ~MapHas(m, key) /\ InInsertionOrder(m)) =>
    /\ Len(after) = config.maxSize
    /\ Keys(after) = Tail(Keys(m)) \o <<key>>

\* C13: a cache map that holds maxSize entries inserted under distinct keys
\* holds, after the insert of one more distinct key, exactly maxSize entries,
\* and the one missing is the first-inserted, also when inserts carry the
\* same timestamp; for setDocument and for setDocumentContent.
C13_OldestInsertedEvicted ==
  [][/\ Called("setDocument") =>
          EvictsFirstInserted(cache, cache', call'.args.documentId)
     /\ Called("setDocumentContent") =>
          EvictsFirstInserted(contentCache, contentCache', call'.args.documentId)]_vars

\* Content was set under three ids in the same millisecond into a cache of
\* capacity 2; the two set last are left.
C13_Witness ==
  /\ call.op = "setDocumentContent"
  /\ config.maxSize = 2
  /\ now = 0
  /\ \A documentId \in DocumentIds : lastCached[documentId] # -1
  /\ Len(contentCache) = 2
  /\ contentCache[2][1] = call.args.documentId
  /\ contentCache[1][2].timestamp = contentCache[2][2].timestamp

(***************************************************************************)
(* C14: two bounded, independent maps.                                     *)
(***************************************************************************)
WithinCapacity ==
  /\ Len(cache) <= config.maxSize
  /\ Len(contentCache) <= config.maxSize

DocumentMethods == {"setDocument", "getDocument", "removeDocument"}

ContentMethods == {"setDocumentContent", "getDocumentContent", "removeDocumentContent"}

\* C14: for a positive maxSize, after any sequence of set, get, remove, clear
\* and sweep the record cache and the content cache each hold at most maxSize
\* entries, and a set / get / remove on one map leaves the other map as it was.
C14_BoundedIndependentMaps ==
  /\ [](config.maxSize > 0 => WithinCapacity)
  /\ [][/\ (now' = now /\ call'.op \in DocumentMethods) => contentCache' = contentCache
        /\ (now' = now /\ call'.op \in ContentMethods) => cache' = cache]_vars

\* A document was set into a record cache left full, next to a content cache
\* that holds another id.
C14_Witness ==
  /\ call.op = "setDocument"
  /\ Len(cache) = config.maxSize
  /\ Len(contentCache) = config.maxSize
  /\ Keys(cache) # Keys(contentCache)
  /\ \E n \in 1..Len(cache) : cache[n][2].timestamp < now

(***************************************************************************)
(* C15: what a get returns.                                                *)
(***************************************************************************)
\* A get of the key on map m returned value and left the map after: absent
\* exactly when m has no entry of the key or its expiry has passed, the data
\* of the entry otherwise; an expired entry, and nothing else, is removed.
GetAnswers(m, after, key, value) ==
  LET found == {e \in Entries(m) : e[1] = key}
  IN IF found = {} THEN value = <<>> /\ after = m
     ELSE \A e \in found :
            IF now > e[2].expiresAt
            THEN /\ value = <<>>
                 /\ after = SelectSeq(m, LAMBDA other : other[1] # key)
            ELSE /\ value = <<e[2].data>>
                 /\ after = m

\* A set of the key left exactly one entry of the key: the value just set.
SetStores(after, key, data, expiration) ==
  /\ Cardinality({n \in 1..Len(after) : after[n][1] = key}) = 1
  /\ \A e \in Entries(after) :
       e[1] = key =>
         e[2] = CacheItem(data, now, now + NumOrElse(expiration, config.defaultExpiration))

\* C15: getDocument / getDocumentContent return absent exactly when the map
\* holds no entry of the key (never set, removed or evicted) or now > expiresAt,
\* and the most recently set value otherwise, also at now = expiresAt; a get
\* that finds an expired entry removes that entry and no other.
C15_GetReturnsLastSetUntilExpiry ==
  [][/\ Called("getDocument") =>
          GetAnswers(cache, cache', call'.args.documentId, result'.value)
     /\ Called("getDocumentContent") =>
          GetAnswers(contentCache, contentCache', call'.args.documentId, result'.value)
     /\ Called("setDocument") =>
          SetStores(cache', call'.args.documentId, call'.args.data, call'.args.expiration)
     /\ Called("setDocumentContent") =>
          SetStores(contentCache', call'.args.documentId, call'.args.data,
                    call'.args.expiration)]_vars

\* A get at the very instant of expiry returned the second value set for the id.
C15_Witness ==
  /\ call.op = "getDocument"
  /\ result.value # <<>>
  /\ result.value[1].version = 2
  /\ MapGet(cache, call.args.documentId)[1].expiresAt = now
  /\ MapGet(cache, call.args.documentId)[1].timestamp > 0

(***************************************************************************)
(* C16: the background sweep.                                              *)
(***************************************************************************)
Unexpired(m) == SelectSeq(m, LAMBDA e : ~(e[2].expiresAt < now))

ExpiredIn(m, documentId) ==
  \E e \in Entries(m) : e[1] = documentId /\ e[2].expiresAt < now

\* C16: each run of the sweep removes from both maps exactly the entries whose
\* expiry has passed; and as long as the timer keeps firing, an expired entry
\* is eventually gone from its map though nothing reads it.
C16_SweepRemovesExpired ==
  /\ [][Called("cleanupExpiredItems") =>
         /\ cache' = Unexpired(cache)
         /\ contentCache' = Unexpired(contentCache)]_vars
  /\ \A documentId \in TwoIds :
       /\ ExpiredIn(cache, documentId) ~> ~ExpiredIn(cache, documentId)
       /\ ExpiredIn(contentCache, documentId) ~> ~ExpiredIn(contentCache, documentId)

\* A cache of room for both ids lost the expired content of one id to the
\* sweep and kept the unexpired content of the other.
C16_Witness ==
  /\ call.op = "cleanupExpiredItems"
  /\ config.maxSize = 2
  /\ Len(contentCache) = 1
  /\ Len(cache) = 1
  /\ \E documentId \in TwoIds :
       /\ ~MapHas(contentCache, documentId)
       /\ lastCached[documentId] # -1
       /\ lastCached[documentId] < now

(***************************************************************************)
(* C17: overlapping cached getters.                                        *)
(***************************************************************************)
Getters == {"getDocumentWithCache", "getDocumentContentWithCache"}

\* The id a fetched value was fetched for.
FetchedFor(op, value) ==
  IF op = "getDocumentWithCache" THEN value.id ELSE <<value[1]>>

\* What a cached getter returned was fetched for the id the call asked for.
ReturnsItsOwnId ==
  (call.op \in Getters /\ result.kind = "return") =>
    FetchedFor(call.op, result.value) = call.args.documentId

\* Every key has one entry, written whole by one set for that key.
OneCompleteEntryPerKey(op, m) ==
  /\ \A i, j \in 1..Len(m) : m[i][1] = m[j][1] => i = j
  /\ \A e \in Entries(m) :
       /\ FetchedFor(op, e[2].data) = e[1]
       /\ e[2].timestamp <= now
       /\ \E expiration \in Expirations :
            e[2].expiresAt =
              e[2].timestamp + NumOrElse(expiration, config.defaultExpiration)

\* C17: under every interleaving of overlapping getDocumentWithCache /
\* getDocumentContentWithCache calls and the sweep, every call returns a value
\* fetched for the id it asked for, every key maps to one complete entry, and
\* neither map exceeds maxSize.
C17_OverlappingGettersKeepCache ==
  /\ ReturnsItsOwnId
  /\ OneCompleteEntryPerKey("getDocumentWithCache", cache)
  /\ OneCompleteEntryPerKey("getDocumentContentWithCache", contentCache)
  /\ WithinCapacity

\* Of two calls that missed the same id and ran a fetcher each, one has
\* resumed and cached its result while the other still awaits.
C17_Witness ==
  /\ call.op = "getDocumentContentWithCache"
  /\ call.args.fetcher = "resolved"
  /\ MapHas(contentCache, call.args.documentId)
  /\ \E slot \in 1..MaxInFlight :
       /\ pending[slot] # <<>>
       /\ pending[slot][1].fn = call.op
       /\ pending[slot][1].documentId = call.args.documentId
       /\ ~pending[slot][1].options.skipCache

(***************************************************************************)
(* C18: the version of a record.                                           *)
(***************************************************************************)
\* C18: an upload creates a record of version 1, a successful
\* updateDocumentContent adds exactly 1 to the version, and a failed content
\* update or a metadata update leaves the version as it was.
C18_VersionCountsContentUpdates ==
  [][/\ Called("uploadDocument") =>
          IF result'.kind = "return"
          THEN held' = <<result'.value>> /\ held'[1].version = 1
          ELSE held' = held
     /\ Called("updateDocumentContent") =>
          held'[1].version =
            held[1].version + (IF result'.kind = "return" THEN 1 ELSE 0)
     /\ Called("handlePut") => held'[1].version = held[1].version]_vars

\* A record uploaded, then updated in content, then in metadata, is at
\* version 2.
C18_Witness ==
  /\ call.op = "handlePut"
  /\ result.value.status = 200
  /\ origin.op = "updateDocumentContent"
  /\ held[1].version = 2
  /\ held[1].status = "archived"

(***************************************************************************)
(* C19: what a metadata update leaves alone.                               *)
(***************************************************************************)
\* The members of a Document a PUT does not write.
FrameOfPut ==
  {"id", "version", "owner", "storageInfo", "fileType", "fileSize", "createdAt"}

\* C19: a PUT changes at most name, description, tags, status and updatedAt
\* of the record; id, version, owner, storageInfo, fileType, fileSize and
\* createdAt stay as they were, whatever the body holds.
C19_PutKeepsIdentity ==
  [][Called("handlePut") =>
       /\ DOMAIN held'[1] = DOMAIN held[1]
       /\ \A member \in FrameOfPut : held'[1][member] = held[1][member]]_vars

\* A PUT whose body also carried an id and a version renamed and archived the
\* record and left its id and version alone.
C19_Witness ==
  /\ call.op = "handlePut"
  /\ call.args.body # <<>>
  /\ call.args.body[1].id = <<"doc9">>
  /\ call.args.body[1].version = 7
  /\ held[1].name = <<"Renamed.pdf">>
  /\ held[1].status = "archived"
  /\ held[1].id # <<"doc9">>
  /\ held[1].version # 7

(***************************************************************************)
(* C20: the storage locators of a record.                                  *)
(***************************************************************************)
\* The storage locators a record has recorded, by backend.
Locators(storageInfo) ==
  (IF Truthy(storageInfo.ipfsCid) THEN {<<"ipfs", storageInfo.ipfsCid>>} ELSE {})
  \cup
  (IF Truthy(storageInfo.arweaveTxId)
   THEN {<<"arweave", storageInfo.arweaveTxId>>} ELSE {})

\* The step is an operation on the record the caller holds.
RecordWritten ==
  now' = now /\ call'.op \in {"updateDocumentContent", "handlePut"}

\* C20 as the spec states it: the locators of a record only grow; none is
\* removed or replaced.
C20_LocatorsAppendOnly ==
  [][RecordWritten =>
       Locators(held[1].storageInfo) \subseteq Locators(held'[1].storageInfo)]_vars

\* C20 (amended): no operation on a record removes or adds a locator member,
\* and arweaveTxId never changes; but a successful content update of a record
\* that has an ipfsCid replaces it by the CID of the new content, and the CID
\* it replaces is no longer recorded.  A failed content update and a metadata
\* update leave both locators as they were.
C20_IpfsLocatorReplaced ==
  [][RecordWritten =>
       /\ held'[1].storageInfo.arweaveTxId = held[1].storageInfo.arweaveTxId
       /\ Truthy(held'[1].storageInfo.ipfsCid) = Truthy(held[1].storageInfo.ipfsCid)
       /\ held'[1].storageInfo.ipfsCid =
            IF /\ call'.op = "updateDocumentContent"
               /\ result'.kind = "return"
               /\ Truthy(held[1].storageInfo.ipfsCid)
            THEN IpfsHash(call'.content)
            ELSE held[1].storageInfo.ipfsCid]_vars

\* A content update put the CID of the new bytes in the place of the CID of
\* the uploaded bytes, which stays pinned but is recorded nowhere.
C20_Witness ==
  /\ call.op = "updateDocumentContent"
  /\ result.kind = "return"
  /\ held[1].storageInfo.ipfsCid = IpfsHash(call.content)
  /\ \E cid \in ipfsPins : cid # held[1].storageInfo.ipfsCid
  /\ held[1].version = 2

(***************************************************************************)
(* Properties of the records an upload returns.                            *)
(***************************************************************************)
\* The Document a successful uploadDocument or processFileUpload returned.
UploadedRecord ==
  IF call.op = "uploadDocument" /\ result.kind = "return" THEN <<result.value>>
  ELSE IF call.op = "processFileUpload" /\ result.value.success THEN result.value.document
  ELSE <<>>

\* C21: every record a successful upload (uploadDocument or processFileUpload)
\* returns has id equal to the hash of the uploaded content, version 1 and
\* status active.
C21_UploadedRecordIsHashedActive ==
  \A document \in {UploadedRecord[n] : n \in 1..Len(UploadedRecord)} :
    /\ document.id = createDocumentHash(call.content)
    /\ document.version = 1
    /\ document.status = "active"

(***************************************************************************)
(* Properties of the ledger client.                                        *)
(***************************************************************************)
\* Some document account on the ledger is bound to the hash.
BoundOnLedger(documentHash) ==
  \E k \in 1..Len(ledger) : ledger[k].documentHash = documentHash

\* C22: ledger verification of an expected hash returns true only when the
\* hash bound on the ledger equals it, and returns false (an ordinary result,
\* never an error) when it does not.
C22_VerifyTrueOnlyOnMatch ==
  call.op = "verifyDocumentOwnership" =>
    /\ result.kind = "return"
    /\ result.value => BoundOnLedger(call.args)
    /\ ~BoundOnLedger(call.args) => result.value = FALSE

C24_PostWithNameCreates ==
  call.op = "handlePost" =>
    /\ result.kind = "return"
    /\ IF Truthy(call.args.name)
       THEN /\ result.value.status = 201
            /\ result.value.success
            /\ result.value.data.name = call.args.name
            /\ result.value.data.description = call.args.description
            /\ result.value.data.tags = call.args.tags
            /\ Truthy(result.value.data.id)
            /\ result.value.data.createdAt = now
            /\ result.value.data.updatedAt = now
       ELSE /\ result.value.status = 400
            /\ ~result.value.success

(***************************************************************************)
(* Properties of a failed updateDocumentContent.                           *)
(***************************************************************************)
UpdateThrows == Called("updateDocumentContent") /\ result'.kind = "throw"

LedgerUpdated(tr) == \E n \in 1..Len(tr) : tr[n] = Ev("ledger.rpc", TRUE)

\* C25: an updateDocumentContent that throws (in the ledger update or in the
\* storage put) leaves id, version, updatedAt and both storage locators of
\* the record as they were; solanaSignature is the only field that can
\* differ, and it holds the new signature exactly when the ledger update had
\* succeeded before the put failed.
C25_FailedUpdateKeepsRecord ==
  [][ UpdateThrows =>
        /\ held'[1].id = held[1].id
        /\ held'[1].version = held[1].version
        /\ held'[1].updatedAt = held[1].updatedAt
        /\ Locators(held'[1].storageInfo) = Locators(held[1].storageInfo)
        /\ [held'[1] EXCEPT !.storageInfo.solanaSignature =
                               held[1].storageInfo.solanaSignature] = held[1]
        /\ held'[1].storageInfo.solanaSignature =
             IF LedgerUpdated(trace')
             THEN <<"sig", "update", createDocumentHash(call'.content)>>
             ELSE held[1].storageInfo.solanaSignature
        /\ LedgerUpdated(trace') => trace'[Len(trace')] = Ev("ipfs.put", FALSE) ]_vars

\* The ledger accepted the new hash, the put on IPFS failed: the record has
\* the new signature, and the id, version and updatedAt of before, at a later
\* time than its last write.
C25_Witness ==
  /\ call.op = "updateDocumentContent"
  /\ result.kind = "throw"
  /\ LedgerUpdated(trace)
  /\ trace[Len(trace)] = Ev("ipfs.put", FALSE)
  /\ held[1].storageInfo.solanaSignature = <<"sig", "update", createDocumentHash(call.content)>>
  /\ held[1].id # createDocumentHash(call.content)
  /\ held[1].version = 1
  /\ held[1].updatedAt < now

(***************************************************************************)
(* Properties of a download that follows updateDocumentContent.            *)
(***************************************************************************)
UpdateReturns == Called("updateDocumentContent") /\ result'.kind = "return"

\* The record was last written by an update to origin.content that succeeded.
UpdatedRecord ==
  /\ held # <<>>
  /\ origin.op = "updateDocumentContent"
  /\ held[1].id = createDocumentHash(origin.content)

\* The Arweave transaction of the record holds other bytes than the update's.
ArweaveHoldsPrevious ==
  /\ ArweaveHas(held[1].storageInfo.arweaveTxId)
  /\ arweaveTxs[held[1].storageInfo.arweaveTxId[2]] # origin.content

\* C26: a successful updateDocumentContent makes the record's id the hash of
\* the new content and refreshes the IPFS locator only; the arweaveTxId and
\* the bytes it addresses stay as they were.  So when the Arweave transaction
\* holds the previous content, a download of the updated record that has no
\* ipfsCid, or whose IPFS get fails, returns the previous bytes, whose hash
\* differs from record.id.
C26_StaleArweaveAfterUpdate ==
  /\ [][ UpdateReturns =>
           /\ held'[1].id = createDocumentHash(call'.content)
           /\ held'[1].storageInfo.arweaveTxId = held[1].storageInfo.arweaveTxId
           /\ arweaveTxs' = arweaveTxs
           /\ Truthy(held[1].storageInfo.ipfsCid) =>
                /\ held'[1].storageInfo.ipfsCid = IpfsHash(call'.content)
                /\ IpfsHash(call'.content) \in ipfsPins' ]_vars
  /\ [][ ( /\ Called("downloadDocument")
           /\ UpdatedRecord
           /\ ArweaveHoldsPrevious
           /\ ArweaveGetSucceeds(held[1].storageInfo, call'.args)
           /\ \/ ~Truthy(held[1].storageInfo.ipfsCid)
              \/ ~IpfsGetSucceeds(held[1].storageInfo, call'.args) )
         => /\ result'.kind = "return"
            /\ result'.value = arweaveTxs[held[1].storageInfo.arweaveTxId[2]]
            /\ createDocumentHash(result'.value) # held[1].id ]_vars

\* A record stored on Arweave only was updated to other content, and its
\* download returned the bytes of before the update.
C26_Witness ==
  /\ DownloadCalled
  /\ UpdatedRecord
  /\ held[1].version = 2
  /\ ~Truthy(held[1].storageInfo.ipfsCid)
  /\ ArweaveHoldsPrevious
  /\ result.kind = "return"
  /\ result.value # origin.content
  /\ createDocumentHash(result.value) # held[1].id

(***************************************************************************)
(* C30: a set on a present key of a full map.                              *)
(***************************************************************************)
\* The key of the entry with the oldest insertion timestamp, the one the Map
\* iterates first among entries of that timestamp.
OldestKey(m) ==
  LET first == CHOOSE i \in 1..Len(m) :
                 \A j \in 1..Len(m) :
                   \/ m[i][2].timestamp < m[j][2].timestamp
                   \/ (m[i][2].timestamp = m[j][2].timestamp /\ i <= j)
  IN m[first][1]

\* A set of a key that map m already held, m being full, left the map after.
SetOnPresentKeyEvicts(m, after, key) ==
  (config.maxSize > 0 /\ Len(m) = config.maxSize /\ MapHas(m, key)) =>
    /\ MapHas(after, key)
    /\ IF OldestKey(m) # key
       THEN ~MapHas(after, OldestKey(m)) /\ Len(after) = config.maxSize - 1
       ELSE Len(after) = config.maxSize

\* C30: when a cache map holds maxSize entries, a set on a key already present
\* still evicts the entry with the oldest insertion timestamp before writing;
\* if that entry belongs to another key, that key is lost and the size drops
\* to maxSize - 1, and if it is the key being set the size stays at maxSize.
C30_SetOnPresentKeyStillEvicts ==
  [][/\ Called("setDocument") =>
          SetOnPresentKeyEvicts(cache, cache', call'.args.documentId)
     /\ Called("setDocumentContent") =>
          SetOnPresentKeyEvicts(contentCache, contentCache', call'.args.documentId)]_vars

\* Content was set under two ids into a cache of capacity 2 from which nothing
\* is removed or read, and one entry is left: a later set of the newer id
\* evicted the older one.
C30_Witness ==
  /\ call.op = "setDocumentContent"
  /\ config.maxSize = 2
  /\ Cardinality({documentId \in DocumentIds : lastCached[documentId] # -1}) = 2
  /\ Len(contentCache) = 1
  /\ contentCache[1][1] = call.args.documentId

(***************************************************************************)
(* C29: processFileUpload returns every failure.                           *)
(***************************************************************************)
\* The type of the error the call made by c with steps tr ran into: that of
\* the UploadError thrown by the validations or after the scan, and
\* UPLOAD_FAILED for an error of the hashing or storage step.
ReportedType(c, tr) ==
  IF validateFileSize(c.args.size, UPLOAD_MAX_FILE_SIZE) # <<>> THEN "FILE_TOO_LARGE"
  ELSE IF validateFileType(c.args.fileName, c.args.mimeType) # <<>> THEN "INVALID_FILE_TYPE"
  ELSE IF tr = <<Ev("scan", TRUE)>> THEN "VIRUS_DETECTED"
  ELSE "UPLOAD_FAILED"

\* C29: processFileUpload never rejects.  Every failure (size or type
\* validation, virus detected, hashing or storage error) is returned as an
\* UploadResult with success = false, no document, storageLocation = '' and an
\* UploadError that keeps the type of the UploadError thrown, any other error
\* being wrapped as UPLOAD_FAILED; success = true comes only together with a
\* document and a non-empty storageLocation.
C29_ProcessFileUploadNeverRejects ==
  call.op = "processFileUpload" =>
    /\ result.kind = "return"
    /\ result.value.success =>
         /\ result.value.document # <<>>
         /\ Truthy(result.value.storageLocation)
         /\ trace = <<Ev("scan", TRUE), Ev("hash", TRUE), Ev("store", TRUE)>>
    /\ ~result.value.success =>
         /\ result.value.document = <<>>
         /\ result.value.storageLocation = EmptyString
         /\ result.value.error # <<>>
         /\ result.value.error[1].type = ReportedType(call, trace)

\* A file that passed validation and the scan was refused by the storage
\* step, and the call returned the failure wrapped as UPLOAD_FAILED.
C29_Witness ==
  /\ call.op = "processFileUpload"
  /\ trace = <<Ev("scan", TRUE), Ev("hash", TRUE), Ev("store", FALSE)>>
  /\ result.kind = "return"
  /\ ~result.value.success
  /\ result.value.error[1].type = "UPLOAD_FAILED"
  /\ result.value.storageLocation = EmptyString

(***************************************************************************)
(* C27: the count read and the transaction sent by registerDocument.       *)
(***************************************************************************)
\* The registrations that await their transaction.
AwaitedRegistrations ==
  {pending[slot][1] : slot \in {s \in 1..MaxInFlight :
                                  pending[s] # <<>> /\ pending[s][1].fn = "registerDocument"}}

AddressInUse(documentPDA) == \E k \in 1..Len(ledger) : ledger[k].pda = documentPDA

\* registerDocument has read the count and awaits its transaction.
RegistrationReads ==
  Called("registerDocument") /\ call'.args.rpc = "invoked"

\* The transaction of a registerDocument settles.
RegistrationSettles ==
  Called("registerDocument") /\ call'.args.rpc \in {"resolved", "rejected"}

\* C27: registerDocument derives the address of the new document from the
\* wallet's public key and the documentCount it read at the start of the call,
\* and sends its transaction to that address whatever the count has become;
\* overlapping calls of one wallet that read the same count hold the same
\* address, and a call whose address was taken meanwhile ends with the error
\* of its transaction: it registers nothing and sends no second transaction.
C27_RegistrationUsesCountReadAtStart ==
  [][/\ RegistrationReads =>
          /\ call'.args.documentPDA = DocumentPDA(call'.args.wallet.publicKey, Len(ledger))
          /\ \E slot \in 1..MaxInFlight :
               /\ pending[slot] = <<>>
               /\ pending'[slot] # <<>>
               /\ pending'[slot][1].documentPDA = call'.args.documentPDA
          /\ ledger' = ledger
     /\ RegistrationSettles =>
          /\ \E slot \in 1..MaxInFlight :
               /\ pending[slot] # <<>>
               /\ pending[slot][1].documentPDA = call'.args.documentPDA
               /\ pending' = [pending EXCEPT ![slot] = <<>>]
          /\ IF AddressInUse(call'.args.documentPDA)
             THEN result'.kind = "throw" /\ ledger' = ledger
             ELSE result'.kind = "return" =>
                    /\ Len(ledger') = Len(ledger) + 1
                    /\ ledger'[Len(ledger')].pda = call'.args.documentPDA]_vars

\* Two calls of one wallet read the same count; the transaction of the first
\* landed, and the second, sent to the same address, was refused and the call
\* threw.
C27_Witness ==
  /\ call.op = "registerDocument"
  /\ call.args.rpc = "rejected"
  /\ result = Throw(<<"ledger: account already in use">>)
  /\ \E k \in 1..Len(ledger) :
       /\ ledger[k].pda = call.args.documentPDA
       /\ ledger[k].authority = call.args.wallet.publicKey
  /\ AwaitedRegistrations = {}

(***************************************************************************)
(* C28: the Program client of the process.                                 *)
(***************************************************************************)
\* C28: the ledger Program client is created at most once per process.  After
\* the first successful getProgram call every later call, whatever wallet or
\* connection it is given (getDocument gives an empty wallet), returns that
\* same instance, bound to the connection and wallet of the first caller; a
\* first call that fails caches nothing, so that the next call tries again.
C28_ProgramCreatedOnce ==
  [][/\ program # <<>> => program' = program
     /\ (Called("getProgram") /\ call'.args.fetchIdl \in {"none", "invoked"}
           /\ program # <<>>) =>
          result' = Return(program[1]) /\ pending' = pending
     /\ (Called("getProgram") /\ program = <<>> /\ result'.kind = "throw") =>
          program' = <<>>]_vars

====
